---- MODULE Spec2Model ----
(***************************************************************************)
(* Model of the disposal-verification pipeline of trackeco-backend:        *)
(* the upload-completion endpoint (api/core.py), the Celery task           *)
(* analyze_video_with_gemini and the ledger transaction                    *)
(* update_stats_and_upload_transaction (tasks.py).                         *)
(***************************************************************************)
EXTENDS Integers, Sequences, FiniteSets, TLC

(***************************************************************************)
(* Bounds of the model.                                                    *)
(***************************************************************************)
MaxRuns == 2            \* task executions (deliveries and retries) explored
MaxFaults == 1          \* injected infrastructure failures per behaviour
MaxUploadCompleteCalls == 2   \* calls of /upload-complete per job
MaxTxnAttempts == 2     \* attempts of one transactional call before it raises
MaxDay == 1             \* WIB calendar days 0..MaxDay
NumKeys == 2            \* len(ACTIVE_GEMINI_KEYS): configured credentials, at most 4
MaxScore == 4           \* component scores 0..MaxScore, finalScore 0..3 * MaxScore
MaxPenalty == 6         \* penaltyPoints 0..MaxPenalty

(***************************************************************************)
(* Program constants.                                                      *)
(***************************************************************************)
max_retries == 2        \* @celery_app.task(max_retries=2)
ReferralBonus == 50     \* award_bonus_points.delay(referrer_id, 50, ...)

Jobs == {"j1", "j2"}
Users == {"u1", "u2", "u3", "u4"}
Runs == 1..MaxRuns
NoUser == "none"
NoJob == "nojob"
Teams == {"t1", "t2"}
NoDate == -1
NoGoal == -1
NoError == "none"
NoFile == << >>           \* gemini_file_resource = None
\* str(e) of the ValueError raised when no parse attempt succeeds, line 446
ParseError == "Could not parse AI response as JSON"

\* ownerUserId of each upload (the user_id argument of the task)
JobOwner == [j \in Jobs |-> "u1"]

(***************************************************************************)
(* Challenge snapshot (collection 'challenges', isActive == True).         *)
(***************************************************************************)
ActiveChallenges ==
    << [challengeId |-> "c1", progressGoal |-> NoGoal, bonusPoints |-> 10],
       [challengeId |-> "c2", progressGoal |-> 5,      bonusPoints |-> 20] >>

ChallengeIds == { ActiveChallenges[i].challengeId : i \in DOMAIN ActiveChallenges }

\* challenge_map = {c.get('challengeId'): c for c in active_challenges}
challenge_map(cid) ==
    LET idx == { i \in DOMAIN ActiveChallenges : ActiveChallenges[i].challengeId = cid }
    IN  ActiveChallenges[CHOOSE i \in idx : \A k \in idx : k <= i]

(***************************************************************************)
(* Parsed AI results.  error is TRUE when the "error" field is a non-empty *)
(* string.  A challenge update carries 'isCompleted' and, when hasProgress,*)
(* a 'progress' count.                                                     *)
(***************************************************************************)
SimpleUpdate(cid) ==
    [challengeId |-> cid, isCompleted |-> TRUE, hasProgress |-> FALSE, progress |-> 0]

ProgressUpdate(cid, n) ==
    [challengeId |-> cid, isCompleted |-> FALSE, hasProgress |-> TRUE, progress |-> n]

MkResult(b, e, c, p, f, err, ups) ==
    [baseScore |-> b, effortScore |-> e, creativityScore |-> c, penaltyPoints |-> p,
     finalScore |-> f, error |-> err, challengeUpdates |-> ups]

RScore    == MkResult(10, 4, 0, 0, 14, FALSE, << SimpleUpdate("c1") >>)
RProgress == MkResult(3, 10, 0, 0, 13, FALSE, << ProgressUpdate("c2", 3) >>)
RProgress2 == MkResult(3, 10, 0, 0, 13, FALSE, << ProgressUpdate("c2", 2) >>)
RError    == MkResult(0, 0, 0, 0, 0, TRUE, << >>)
RLow      == MkResult(1, 1, 0, 0, 2, FALSE, << SimpleUpdate("c1") >>)
RLowHigh  == MkResult(1, 1, 1, 0, 4, FALSE, << >>)
\* finalScore is read from the response as it is, line 138
RNegative == MkResult(2, 0, 0, 3, -1, FALSE, << >>)
\* challengeUpdates is read from the response as it is, line 144
RTwice    == MkResult(10, 4, 0, 0, 14, FALSE, << SimpleUpdate("c1"), SimpleUpdate("c1") >>)

\* a zero final score with consistent component scores: not low-confidence
RZero     == MkResult(3, 0, 0, 3, 0, FALSE, << >>)

\* the parsed results the inference provider may return in this model
ResultPool == { RScore, RProgress, RError, RLow, RLowHigh }

NoResult == [none |-> TRUE]
\* response.text is empty or None
EmptyResponse == [empty |-> TRUE]
Garbage == [garbage |-> TRUE]

(***************************************************************************)
(* Low-confidence detection, tasks.py lines 462-468.                       *)
(***************************************************************************)
Abs(x) == IF x < 0 THEN -x ELSE x

score_sum(res) == res.baseScore + res.effortScore + res.creativityScore

\* variant of is_low_confidence: the component sum is not compared with the
\* final score
is_low_confidence_without_sum(res) ==
    \/ (res.baseScore <= 1 /\ res.effortScore <= 1 /\ res.creativityScore <= 1
        /\ res.finalScore <= 3)
    \/ (res.penaltyPoints >= 5 /\ res.finalScore <= 2)
    \/ (res.finalScore <= 2 /\ score_sum(res) >= 10)

is_low_confidence(res) ==
    \/ (res.baseScore <= 1 /\ res.effortScore <= 1 /\ res.creativityScore <= 1
        /\ res.finalScore <= 3)
    \/ (res.penaltyPoints >= 5 /\ res.finalScore <= 2)
    \/ Abs(score_sum(res) - res.finalScore) > 5
    \/ (res.finalScore <= 2 /\ score_sum(res) >= 10)

\* the in-memory result after the override of lines 479-488
OverrideResult(res) == MkResult(0, 0, 0, 0, 0, TRUE, << >>)

(***************************************************************************)
(* update_stats_and_upload_transaction, tasks.py lines 135-227: the body   *)
(* of the ledger transaction as a function of the user document read in    *)
(* the transaction.                                                        *)
(***************************************************************************)
\* challenge_progress.get(challenge_id, 0)
ProgressGet(prog, cid) == IF cid \in DOMAIN prog THEN prog[cid] ELSE 0

\* challenge_progress.pop(challenge_id, None)
ProgressPop(prog, cid) == [c \in (DOMAIN prog) \ {cid} |-> prog[c]]

\* challenge_progress[challenge_id] = new_prog
ProgressSet(prog, cid, n) ==
    [c \in (DOMAIN prog) \cup {cid} |-> IF c = cid THEN n ELSE prog[c]]

\* variant of ChallengeStep: the goal must be exceeded, not met
ChallengeStepStrict(acc, update, user_completed_ids) ==
    LET cid == update.challengeId IN
    IF cid \in user_completed_ids \/ cid \notin ChallengeIds THEN acc
    ELSE LET challenge == challenge_map(cid) IN
         IF update.isCompleted /\ challenge.progressGoal = NoGoal
         THEN [acc EXCEPT !.bonus_points = @ + challenge.bonusPoints,
                          !.newly_completed_ids = Append(@, cid)]
         ELSE IF update.hasProgress /\ challenge.progressGoal # NoGoal
         THEN LET new_prog == ProgressGet(acc.challenge_progress, cid) + update.progress IN
              IF new_prog > challenge.progressGoal
              THEN [acc EXCEPT !.bonus_points = @ + challenge.bonusPoints,
                               !.newly_completed_ids = Append(@, cid),
                               !.challenge_progress = ProgressPop(@, cid)]
              ELSE [acc EXCEPT !.challenge_progress = ProgressSet(@, cid, new_prog)]
         ELSE acc

\* one iteration of `for update in challenge_updates`, lines 147-166;
\* acc = [bonus_points, newly_completed_ids, challenge_progress]
ChallengeStep(acc, update, user_completed_ids) ==
    LET cid == update.challengeId IN
    IF cid \in user_completed_ids \/ cid \notin ChallengeIds THEN acc
    ELSE LET challenge == challenge_map(cid) IN
         IF update.isCompleted /\ challenge.progressGoal = NoGoal
         THEN [acc EXCEPT !.bonus_points = @ + challenge.bonusPoints,
                          !.newly_completed_ids = Append(@, cid)]
         ELSE IF update.hasProgress /\ challenge.progressGoal # NoGoal
         THEN LET new_prog == ProgressGet(acc.challenge_progress, cid) + update.progress IN
              IF new_prog >= challenge.progressGoal
              THEN [acc EXCEPT !.bonus_points = @ + challenge.bonusPoints,
                               !.newly_completed_ids = Append(@, cid),
                               !.challenge_progress = ProgressPop(@, cid)]
              ELSE [acc EXCEPT !.challenge_progress = ProgressSet(@, cid, new_prog)]
         ELSE acc

RECURSIVE ChallengeLoop(_, _, _)
ChallengeLoop(acc, updates, user_completed_ids) ==
    IF updates = << >> THEN acc
    ELSE ChallengeLoop(ChallengeStep(acc, Head(updates), user_completed_ids),
                       Tail(updates), user_completed_ids)

\* variant of NewStreak: every activity after the last recorded one counts
NewStreakCountsSameDay(user_data, today_wib_date) ==
    IF user_data.lastStreakDate # NoDate
    THEN IF user_data.lastStreakDate >= today_wib_date - 1
         THEN user_data.currentStreak + 1
         ELSE 1
    ELSE 1

\* lines 169-192: the streak after this activity
NewStreak(user_data, today_wib_date) ==
    IF user_data.lastStreakDate # NoDate
    THEN IF user_data.lastStreakDate # today_wib_date
         THEN IF user_data.lastStreakDate = today_wib_date - 1
              THEN user_data.currentStreak + 1
              ELSE 1
         ELSE user_data.currentStreak
    ELSE 1

SeqToSet(s) == { s[i] : i \in DOMAIN s }

\* variant of LedgerUpdate: maxStreak is overwritten with the streak after
\* this activity
LedgerUpdateOverwritesMax(user_data, ai_result, today_wib_date, now) ==
    LET acc == ChallengeLoop([bonus_points |-> 0, newly_completed_ids |-> << >>,
                              challenge_progress |-> user_data.challengeProgress],
                             ai_result.challengeUpdates,
                             user_data.completedChallengeIds)
        current_streak == NewStreak(user_data, today_wib_date)
    IN  [user_data EXCEPT
            !.totalPoints = @ + ai_result.finalScore + acc.bonus_points,
            !.currentStreak = current_streak,
            !.lastStreakDate = now,
            !.challengeProgress = acc.challenge_progress,
            !.maxStreak = current_streak,
            !.hasCompletedFirstUpload = TRUE,
            !.completedChallengeIds = @ \cup SeqToSet(acc.newly_completed_ids)]

\* variant of LedgerUpdate: the activity timestamp is written only when the
\* job earned points
LedgerUpdateStampsScored(user_data, ai_result, today_wib_date, now) ==
    LET acc == ChallengeLoop([bonus_points |-> 0, newly_completed_ids |-> << >>,
                              challenge_progress |-> user_data.challengeProgress],
                             ai_result.challengeUpdates,
                             user_data.completedChallengeIds)
        current_streak == NewStreak(user_data, today_wib_date)
    IN  [user_data EXCEPT
            !.totalPoints = @ + ai_result.finalScore + acc.bonus_points,
            !.currentStreak = current_streak,
            !.lastStreakDate = IF ai_result.finalScore + acc.bonus_points > 0
                               THEN now ELSE @,
            !.challengeProgress = acc.challenge_progress,
            !.maxStreak = IF current_streak > @ THEN current_streak ELSE @,
            !.hasCompletedFirstUpload = TRUE,
            !.completedChallengeIds = @ \cup SeqToSet(acc.newly_completed_ids)]

\* lines 135-221: the user document after transaction.update(user_ref, ...);
\* now is the WIB date of firestore.SERVER_TIMESTAMP at commit
LedgerUpdate(user_data, ai_result, today_wib_date, now) ==
    LET acc == ChallengeLoop([bonus_points |-> 0, newly_completed_ids |-> << >>,
                              challenge_progress |-> user_data.challengeProgress],
                             ai_result.challengeUpdates,
                             user_data.completedChallengeIds)
        current_streak == NewStreak(user_data, today_wib_date)
    IN  [user_data EXCEPT
            !.totalPoints = @ + ai_result.finalScore + acc.bonus_points,
            !.currentStreak = current_streak,
            !.lastStreakDate = now,
            !.challengeProgress = acc.challenge_progress,
            !.maxStreak = IF current_streak > @ THEN current_streak ELSE @,
            !.hasCompletedFirstUpload = TRUE,
            !.completedChallengeIds = @ \cup SeqToSet(acc.newly_completed_ids)]

\* lines 194-195
\* variant of is_first_upload: the flag is not consulted
is_first_upload_unflagged(user_data) == TRUE

is_first_upload(user_data) == ~user_data.hasCompletedFirstUpload

referrer_id(user_data) ==
    IF is_first_upload(user_data) THEN user_data.referredBy ELSE NoUser

(***************************************************************************)
(* State.                                                                  *)
(*   uploads    collection 'uploads': one document per job                 *)
(*   users      collection 'users'; version is the document's update time  *)
(*   storage    prefixes of the bucket under which the job's media exists  *)
(*   run        one record per execution of analyze_video_with_gemini      *)
(*   today      current WIB date                                           *)
(*   enqueued   the job's message is in the at-least-once queue            *)
(*   uc         position and call count of /upload-complete per job        *)
(*   retryQ     executions scheduled by self.retry                         *)
(*   awardQ     dispatched award_bonus_points tasks                        *)
(*   cursor     redis key current_analysis_gemini_key_index                *)
(*   sent       status carried by the last FCM payload sent for the job    *)
(*   faults     infrastructure failures injected so far                    *)
(*   ledgerLog  history of committed ledger transactions (user existed)    *)
(*   teams      collection 'teamChallenges'                                *)
(*   gemini_file_resource  the local of that name, per execution           *)
(*   remoteFiles  files created through the provider's File API, each with *)
(*              whether its deletion has been requested                    *)
(*   summary_cache  redis keys user_summary:<user id>                      *)
(*   profile_read   the locals of a call of get_user_profiles_from_ids     *)
(*   streak_job     the daily run of reset_inactive_streaks: the day of    *)
(*              its last run and the updates in its batch                  *)
(***************************************************************************)
VARIABLES uploads, users, storage, run, today, enqueued, uc, retryQ, awardQ,
          cursor, sent, faults, ledgerLog, teams,
          gemini_file_resource, remoteFiles,
          summary_cache, profile_read, streak_job

vars == << uploads, users, storage, run, today, enqueued, uc, retryQ, awardQ,
           cursor, sent, faults, ledgerLog, teams,
           gemini_file_resource, remoteFiles,
           summary_cache, profile_read, streak_job >>

\* no value under the key user_summary:<user id>
NoSummary == [cached |-> FALSE, totalPoints |-> 0, currentStreak |-> 0]

\* no call of get_user_profiles_from_ids is between its read and its write
NoProfileRead == [pc |-> "idle", user |-> NoUser, entry |-> NoSummary]

\* invalidate_user_summary_cache, api/cache_utils.py lines 7-11
invalidate_user_summary_cache(cache, user_id) == [cache EXCEPT ![user_id] = NoSummary]

\* the document written by initiate_upload, api/core.py lines 44-52
NewUpload ==
    [status |-> "PENDING_UPLOAD", aiResult |-> NoResult, errorMessage |-> NoError,
     processedTimestamp |-> FALSE]

\* the document written at registration, api/auth.py lines 94-105
NewUser(ref) ==
    [exists |-> TRUE, version |-> 0, totalPoints |-> 0, currentStreak |-> 0,
     maxStreak |-> 0, lastStreakDate |-> NoDate, completedChallengeIds |-> {},
     challengeProgress |-> << >>, hasCompletedFirstUpload |-> FALSE,
     referredBy |-> ref, activeTeamChallenges |-> << >>]

\* no document under this id in 'teamChallenges'
NoTeam ==
    [exists |-> FALSE, version |-> 0, status |-> "none",
     originalChallengeId |-> "none",
     currentProgress |-> 0, progressGoal |-> 0, bonusPoints |-> 0,
     members |-> [u \in Users |-> "none"]]

IdleRun ==
    [pc |-> "idle", job |-> NoJob, retries |-> 0, observed |-> "none",
     result |-> NoResult,
     overridden |-> FALSE, today |-> 0, snap |-> NoResult, attempts |-> 0,
     referrer |-> NoUser, first |-> FALSE, outcome |-> "none",
     exc |-> NoError, active_team_ids |-> << >>, team |-> 0,
     completed_challenge |-> NoTeam, start_index |-> 0, i |-> 0,
     tried |-> << >>]

\* no document under this id
MissingUpload == [NewUpload EXCEPT !.status = "MISSING"]

\* Job j1 has been created by initiate_upload.  No document exists under j2,
\* and a message naming it has been dispatched through /process-task
\* (api/core.py lines 109-122), which accepts any upload_id.
Init ==
    /\ uploads = [j \in Jobs |-> IF j = "j1" THEN NewUpload ELSE MissingUpload]
    /\ users = [u \in Users |-> NewUser(IF u = "u1" THEN "u2" ELSE NoUser)]
    /\ storage = [j \in Jobs |-> {"incoming"}]
    /\ run = [r \in Runs |-> IdleRun]
    /\ today = 0
    /\ enqueued = [j \in Jobs |-> j # "j1"]
    /\ uc = [j \in Jobs |-> [pc |-> "idle", calls |-> 0]]
    /\ retryQ = {}
    /\ awardQ = << >>
    /\ cursor = 0
    /\ sent = [j \in Jobs |-> "none"]
    /\ faults = 0
    /\ ledgerLog = << >>
    /\ teams = [t \in Teams |-> NoTeam]
    /\ gemini_file_resource = [r \in Runs |-> NoFile]
    /\ remoteFiles = << >>
    /\ summary_cache = [u \in Users |-> NoSummary]
    /\ profile_read = NoProfileRead
    /\ streak_job = [pc |-> "idle", last |-> NoDate, batch |-> {}]

Terminal == {"COMPLETED", "FAILED"}

(***************************************************************************)
(* Environment: the calendar advances.                                     *)
(***************************************************************************)
Tick ==
    /\ today < MaxDay
    /\ today' = today + 1
    /\ UNCHANGED << uploads, users, storage, run, enqueued, uc, retryQ, awardQ,
                    cursor, sent, faults, ledgerLog, teams,
                    gemini_file_resource, remoteFiles,
                    summary_cache, profile_read, streak_job >>

(***************************************************************************)
(* upload_complete, api/core.py lines 65-107.                              *)
(***************************************************************************)
\* line 85: upload_ref.update({'status': 'PENDING_ANALYSIS'})
UploadCompleteWrite(j) ==
    /\ uc[j].pc = "idle"
    /\ uc[j].calls < MaxUploadCompleteCalls
    /\ users[JobOwner[j]].exists
    /\ uploads[j].status # "MISSING"
    /\ uploads' = [uploads EXCEPT ![j].status = "PENDING_ANALYSIS"]
    /\ uc' = [uc EXCEPT ![j] = [pc |-> "written", calls |-> @.calls + 1]]
    /\ UNCHANGED << users, storage, run, today, enqueued, retryQ, awardQ,
                    cursor, sent, faults, ledgerLog, teams,
                    gemini_file_resource, remoteFiles,
                    summary_cache, profile_read, streak_job >>

\* lines 87-101: tasks_client.create_task succeeded
UploadCompleteEnqueue(j) ==
    /\ uc[j].pc = "written"
    /\ enqueued' = [enqueued EXCEPT ![j] = TRUE]
    /\ uc' = [uc EXCEPT ![j].pc = "idle"]
    /\ UNCHANGED << uploads, users, storage, run, today, retryQ, awardQ,
                    cursor, sent, faults, ledgerLog, teams,
                    gemini_file_resource, remoteFiles,
                    summary_cache, profile_read, streak_job >>

\* lines 102-105: create_task raised
UploadCompleteQueueFail(j) ==
    /\ uc[j].pc = "written"
    /\ faults < MaxFaults
    /\ faults' = faults + 1
    /\ uploads' = [uploads EXCEPT ![j].status = "FAILED", ![j].errorMessage = "Failed to queue for analysis."]
    /\ uc' = [uc EXCEPT ![j].pc = "idle"]
    /\ UNCHANGED << users, storage, run, today, enqueued, retryQ, awardQ,
                    cursor, sent, ledgerLog, teams,
                    gemini_file_resource, remoteFiles,
                    summary_cache, profile_read, streak_job >>

(***************************************************************************)
(* Task queue: at-least-once delivery and Celery retries.                  *)
(***************************************************************************)
FirstIdle(r) == run[r].pc = "idle" /\ \A q \in Runs : q < r => run[q].pc # "idle"

\* a delivery of the job's message; the message may be delivered again
Deliver(r, j) ==
    /\ FirstIdle(r)
    /\ enqueued[j]
    /\ run' = [run EXCEPT ![r] = [IdleRun EXCEPT !.pc = "guard", !.job = j]]
    /\ UNCHANGED << uploads, users, storage, today, enqueued, uc, retryQ, awardQ,
                    cursor, sent, faults, ledgerLog, teams,
                    gemini_file_resource, remoteFiles,
                    summary_cache, profile_read, streak_job >>

\* the execution scheduled by self.retry
DeliverRetry(r, m) ==
    /\ FirstIdle(r)
    /\ m \in retryQ
    /\ retryQ' = retryQ \ {m}
    /\ run' = [run EXCEPT ![r] = [IdleRun EXCEPT !.pc = "guard", !.job = m.job,
                                                 !.retries = m.retries]]
    /\ UNCHANGED << uploads, users, storage, today, enqueued, uc, awardQ,
                    cursor, sent, faults, ledgerLog, teams,
                    gemini_file_resource, remoteFiles,
                    summary_cache, profile_read, streak_job >>

(***************************************************************************)
(* analyze_video_with_gemini, tasks.py lines 284-540.                      *)
(***************************************************************************)
\* an exception e propagates to `except Exception as e`, line 507; exc is
\* str(e), the text the handler stores as errorMessage
Raise(r, e) == run' = [run EXCEPT ![r].pc = "handler", ![r].exc = e]

\* variant of GuardRead: only a job that is being processed is skipped
GuardReadSkipsTerminal(r) ==
    /\ run[r].pc = "guard"
    /\ LET status == uploads[run[r].job].status IN
       IF status \in {"MISSING", "PENDING_UPLOAD", "PROCESSING_AI"}
       THEN run' = [run EXCEPT ![r].pc = "finally", ![r].observed = status,
                               ![r].outcome = "aborted"]
       ELSE run' = [run EXCEPT ![r].pc = "claim", ![r].observed = status]
    /\ UNCHANGED << uploads, users, storage, today, enqueued, uc, retryQ, awardQ,
                    cursor, sent, faults, ledgerLog, teams,
                    gemini_file_resource, remoteFiles,
                    summary_cache, profile_read, streak_job >>

\* variant of GuardRead: a task found invalid marks an existing job FAILED
GuardReadMarksFailed(r) ==
    /\ run[r].pc = "guard"
    /\ LET status == uploads[run[r].job].status IN
       IF status # "PENDING_ANALYSIS"
       THEN /\ run' = [run EXCEPT ![r].pc = "finally", ![r].observed = status,
                                  ![r].outcome = "aborted"]
            /\ uploads' = [uploads EXCEPT ![run[r].job].status =
                              IF status = "MISSING" THEN status ELSE "FAILED"]
       ELSE /\ run' = [run EXCEPT ![r].pc = "claim", ![r].observed = status]
            /\ UNCHANGED uploads
    /\ UNCHANGED << users, storage, today, enqueued, uc, retryQ, awardQ,
                    cursor, sent, faults, ledgerLog, teams,
                    gemini_file_resource, remoteFiles,
                    summary_cache, profile_read, streak_job >>

\* lines 297-300: read the upload document and test its status
GuardRead(r) ==
    /\ run[r].pc = "guard"
    /\ LET status == uploads[run[r].job].status IN   \* "MISSING": no document
       IF status # "PENDING_ANALYSIS"
       THEN run' = [run EXCEPT ![r].pc = "finally", ![r].observed = status,
                               ![r].outcome = "aborted"]
       ELSE run' = [run EXCEPT ![r].pc = "claim", ![r].observed = status]
    /\ UNCHANGED << uploads, users, storage, today, enqueued, uc, retryQ, awardQ,
                    cursor, sent, faults, ledgerLog, teams,
                    gemini_file_resource, remoteFiles,
                    summary_cache, profile_read, streak_job >>

\* line 302: upload_ref.update({'status': 'PROCESSING_AI', 'processedTimestamp': ...})
Claim(r) ==
    /\ run[r].pc = "claim"
    /\ uploads' = [uploads EXCEPT ![run[r].job].status = "PROCESSING_AI",
                                  ![run[r].job].processedTimestamp = TRUE]
    /\ run' = [run EXCEPT ![r].pc = "prep"]
    /\ UNCHANGED << users, storage, today, enqueued, uc, retryQ, awardQ,
                    cursor, sent, faults, ledgerLog, teams,
                    gemini_file_resource, remoteFiles,
                    summary_cache, profile_read, streak_job >>

\* lines 304-323: build the prompt, check and download the source blob
Prepare(r) ==
    /\ run[r].pc = "prep"
    /\ IF "incoming" \in storage[run[r].job]
       THEN run' = [run EXCEPT ![r].pc = "infer"]
       ELSE Raise(r, "Blob not found.")
    /\ UNCHANGED << uploads, users, storage, today, enqueued, uc, retryQ, awardQ,
                    cursor, sent, faults, ledgerLog, teams,
                    gemini_file_resource, remoteFiles,
                    summary_cache, profile_read, streak_job >>

\* lines 326-360: the credential at offset k from the cursor is the first
\* to succeed and returns a response
InferSuccess(r, k, resp) ==
    /\ run[r].pc = "infer"
    /\ cursor' = (cursor + k) % NumKeys
    /\ run' = [run EXCEPT ![r].pc = "interpret", ![r].result = resp]
    /\ UNCHANGED << uploads, users, storage, today, enqueued, uc, retryQ, awardQ,
                    sent, faults, ledgerLog, teams,
                    gemini_file_resource, remoteFiles,
                    summary_cache, profile_read, streak_job >>

\* lines 361-370: every credential failed, the last exception is re-raised
InferAllFail(r) ==
    /\ run[r].pc = "infer"
    /\ faults < MaxFaults
    /\ faults' = faults + 1
    /\ Raise(r, "credential failed")
    /\ UNCHANGED << uploads, users, storage, today, enqueued, uc, retryQ, awardQ,
                    cursor, sent, ledgerLog, teams,
                    gemini_file_resource, remoteFiles,
                    summary_cache, profile_read, streak_job >>

\* lines 378-489: parse, low-confidence detection and the three-way branch
Interpret(r) ==
    /\ run[r].pc = "interpret"
    /\ LET j == run[r].job
           res == run[r].result IN
       IF res = Garbage
       THEN Raise(r, ParseError) /\ UNCHANGED uploads
       ELSE IF res.error
       THEN /\ uploads' = [uploads EXCEPT ![j].status = "COMPLETED",
                                          ![j].aiResult = res]
            /\ run' = [run EXCEPT ![r].pc = "notify"]
       ELSE IF is_low_confidence(res)
       THEN /\ run' = [run EXCEPT ![r].pc = "notify", ![r].overridden = TRUE]
            /\ UNCHANGED uploads
       ELSE /\ run' = [run EXCEPT ![r].pc = "txn_read", ![r].today = today]
            /\ UNCHANGED uploads
    /\ UNCHANGED << users, storage, today, enqueued, uc, retryQ, awardQ,
                    cursor, sent, faults, ledgerLog, teams,
                    gemini_file_resource, remoteFiles,
                    summary_cache, profile_read, streak_job >>


(***************************************************************************)
(* The ledger transaction.  @firestore.transactional runs the function,    *)
(* then commits; a commit whose read document changed since the read is    *)
(* aborted and the function is run again, up to the attempt limit.         *)
(***************************************************************************)
\* lines 129-227: the function is run: user_ref.get(transaction=transaction)
\* at line 130, the writes buffered until the commit and, the document
\* existing, invalidate_user_summary_cache at line 225
TxnRead(r) ==
    /\ run[r].pc = "txn_read"
    /\ run' = [run EXCEPT ![r].pc = "txn_commit",
                          ![r].snap = users[JobOwner[run[r].job]],
                          ![r].attempts = @ + 1]
    /\ summary_cache' =
          IF users[JobOwner[run[r].job]].exists
          THEN invalidate_user_summary_cache(summary_cache, JobOwner[run[r].job])
          ELSE summary_cache
    /\ UNCHANGED << uploads, users, storage, today, enqueued, uc, retryQ, awardQ,
                    cursor, sent, faults, ledgerLog, teams,
                    gemini_file_resource, remoteFiles,
                    profile_read, streak_job >>

\* variant of TxnValid: the writes are applied without validating the read
TxnValidUnchecked(r) == TRUE

\* the store's validation of the transaction at commit
TxnValid(r) == users[JobOwner[run[r].job]].version = run[r].snap.version

\* variant of TxnCommit: the transaction also credits the referral reward to
\* the referrer's document
TxnCommitCreditsReferrer(r) ==
    /\ run[r].pc = "txn_commit"
    /\ TxnValid(r)
    /\ LET j == run[r].job
           u == JobOwner[j]
           user_data == run[r].snap
           after == [LedgerUpdate(user_data, run[r].result, run[r].today, today)
                        EXCEPT !.version = @ + 1]
           ref == referrer_id(user_data)
       IN  /\ uploads' = [uploads EXCEPT ![j].status = "COMPLETED",
                                         ![j].aiResult = run[r].result]
           /\ IF user_data.exists
              THEN /\ users' = [v \in Users |->
                                  IF v = u THEN after
                                  ELSE IF v = ref
                                  THEN [users[v] EXCEPT !.totalPoints = @ + ReferralBonus,
                                                        !.version = @ + 1]
                                  ELSE users[v]]
                   /\ ledgerLog' = Append(ledgerLog,
                          [job |-> j, run |-> r, result |-> run[r].result,
                           today |-> run[r].today, now |-> today,
                           before |-> user_data, after |-> after])
                   /\ run' = [run EXCEPT ![r].pc = "reindex",
                                         ![r].snap = NoResult,
                                         ![r].referrer = NoUser,
                                         ![r].first = is_first_upload(user_data)]
              ELSE /\ UNCHANGED << users, ledgerLog >>
                   /\ run' = [run EXCEPT ![r].pc = "reindex", ![r].snap = NoResult]
    /\ UNCHANGED << storage, today, enqueued, uc, retryQ, awardQ,
                    cursor, sent, faults, teams,
                    gemini_file_resource, remoteFiles,
                    summary_cache, profile_read, streak_job >>

\* variant of TxnCommit: a missing user document is treated as an empty one
\* and written
TxnCommitCreatesUser(r) ==
    /\ run[r].pc = "txn_commit"
    /\ TxnValid(r)
    /\ LET j == run[r].job
           u == JobOwner[j]
           user_data == [run[r].snap EXCEPT !.exists = TRUE]
           after == [LedgerUpdate(user_data, run[r].result, run[r].today, today)
                        EXCEPT !.version = @ + 1]
       IN  /\ uploads' = [uploads EXCEPT ![j].status = "COMPLETED",
                                         ![j].aiResult = run[r].result]
           /\ users' = [users EXCEPT ![u] = after]
           /\ ledgerLog' = Append(ledgerLog,
                  [job |-> j, run |-> r, result |-> run[r].result,
                   today |-> run[r].today, now |-> today,
                   before |-> user_data, after |-> after])
           /\ run' = [run EXCEPT ![r].pc = "reindex",
                                 ![r].snap = NoResult,
                                 ![r].referrer = referrer_id(user_data),
                                 ![r].first = is_first_upload(user_data)]
    /\ UNCHANGED << storage, today, enqueued, uc, retryQ, awardQ,
                    cursor, sent, faults, teams,
                    gemini_file_resource, remoteFiles,
                    summary_cache, profile_read, streak_job >>

\* lines 131-133 and 221-227: the writes of the transaction, applied together
TxnCommit(r) ==
    /\ run[r].pc = "txn_commit"
    /\ TxnValid(r)
    /\ LET j == run[r].job
           u == JobOwner[j]
           user_data == run[r].snap
           after == [LedgerUpdate(user_data, run[r].result, run[r].today, today)
                        EXCEPT !.version = @ + 1]
       IN  /\ uploads' = [uploads EXCEPT ![j].status = "COMPLETED",
                                         ![j].aiResult = run[r].result]
           /\ IF user_data.exists
              THEN /\ users' = [users EXCEPT ![u] = after]
                   /\ ledgerLog' = Append(ledgerLog,
                          [job |-> j, run |-> r, result |-> run[r].result,
                           today |-> run[r].today, now |-> today,
                           before |-> user_data, after |-> after])
                   /\ run' = [run EXCEPT ![r].pc = "reindex",
                                         ![r].snap = NoResult,
                                         ![r].referrer = referrer_id(user_data),
                                         ![r].first = is_first_upload(user_data)]
              ELSE /\ UNCHANGED << users, ledgerLog >>
                   /\ run' = [run EXCEPT ![r].pc = "reindex", ![r].snap = NoResult]
    /\ UNCHANGED << storage, today, enqueued, uc, retryQ, awardQ,
                    cursor, sent, faults, teams,
                    gemini_file_resource, remoteFiles,
                    summary_cache, profile_read, streak_job >>

\* variant of TxnAbort: an aborted commit starts the pipeline again at the
\* inference
TxnAbortRestartsPipeline(r) ==
    /\ run[r].pc = "txn_commit"
    /\ ~TxnValid(r)
    /\ IF run[r].attempts < MaxTxnAttempts
       THEN run' = [run EXCEPT ![r].pc = "infer", ![r].snap = NoResult]
       ELSE run' = [run EXCEPT ![r].pc = "handler", ![r].snap = NoResult,
                             ![r].exc = "transaction aborted"]
    /\ UNCHANGED << uploads, users, storage, today, enqueued, uc, retryQ, awardQ,
                    cursor, sent, faults, ledgerLog, teams,
                    gemini_file_resource, remoteFiles,
                    summary_cache, profile_read, streak_job >>

\* the commit is aborted: run the function again, or give up and raise
TxnAbort(r) ==
    /\ run[r].pc = "txn_commit"
    /\ ~TxnValid(r)
    /\ IF run[r].attempts < MaxTxnAttempts
       THEN run' = [run EXCEPT ![r].pc = "txn_read", ![r].snap = NoResult]
       ELSE run' = [run EXCEPT ![r].pc = "handler", ![r].snap = NoResult,
                             ![r].exc = "transaction aborted"]
    /\ UNCHANGED << uploads, users, storage, today, enqueued, uc, retryQ, awardQ,
                    cursor, sent, faults, ledgerLog, teams,
                    gemini_file_resource, remoteFiles,
                    summary_cache, profile_read, streak_job >>

\* line 493: sync_user_to_algolia(user_id), which re-raises its failures
Reindex(r) ==
    /\ run[r].pc = "reindex"
    /\ \/ /\ run' = [run EXCEPT ![r].pc = "referral"]
          /\ UNCHANGED faults
       \/ /\ faults < MaxFaults
          /\ faults' = faults + 1
          /\ Raise(r, "reindex failed")
    /\ UNCHANGED << uploads, users, storage, today, enqueued, uc, retryQ, awardQ,
                    cursor, sent, ledgerLog, teams,
                    gemini_file_resource, remoteFiles,
                    summary_cache, profile_read, streak_job >>

\* lines 494-495: the referral reward task is dispatched
Referral(r) ==
    /\ run[r].pc = "referral"
    /\ IF run[r].referrer # NoUser /\ run[r].first
       THEN awardQ' = Append(awardQ, [user |-> run[r].referrer, amount |-> ReferralBonus])
       ELSE UNCHANGED awardQ
    /\ run' = [run EXCEPT ![r].pc = "team"]
    /\ UNCHANGED << uploads, users, storage, today, enqueued, uc, retryQ,
                    cursor, sent, faults, ledgerLog, teams,
                    gemini_file_resource, remoteFiles,
                    summary_cache, profile_read, streak_job >>

\* progress_updates_map = {p['challengeId']: p['progress'] for p in
\* challenge_updates if 'progress' in p}, line 239
progress_updates_map(challenge_updates) ==
    LET idx == { i \in DOMAIN challenge_updates : challenge_updates[i].hasProgress }
    IN  [cid \in { challenge_updates[i].challengeId : i \in idx } |->
            challenge_updates[CHOOSE i \in idx :
                /\ challenge_updates[i].challengeId = cid
                /\ \A k \in idx : challenge_updates[k].challengeId = cid => k <= i].progress]

\* line 497 and lines 229-240: handle_team_challenge_progress up to the loop
\* over the user's active team challenges, with its early returns
TeamAggregate(r) ==
    /\ run[r].pc = "team"
    /\ LET challenge_updates == run[r].result.challengeUpdates
           user_doc == users[JobOwner[run[r].job]]
       IN  IF \/ challenge_updates = << >>
              \/ ~user_doc.exists
              \/ user_doc.activeTeamChallenges = << >>
              \/ DOMAIN progress_updates_map(challenge_updates) = {}
           THEN run' = [run EXCEPT ![r].pc = "notify"]
           ELSE run' = [run EXCEPT ![r].pc = "team_txn", ![r].team = 1,
                           ![r].attempts = 0,
                           ![r].active_team_ids = user_doc.activeTeamChallenges]
    /\ UNCHANGED << uploads, users, storage, today, enqueued, uc, retryQ, awardQ,
                    cursor, sent, faults, ledgerLog, teams,
                    gemini_file_resource, remoteFiles,
                    summary_cache, profile_read, streak_job >>

(***************************************************************************)
(* update_progress_in_transaction, lines 242-263: one transaction per team *)
(* challenge of the list, run like the ledger transaction.                 *)
(***************************************************************************)
\* lines 242-247: the next team challenge of the list is read; the loop is
\* over when the list is exhausted
TeamTxnRead(r) ==
    /\ run[r].pc = "team_txn"
    /\ IF run[r].team > Len(run[r].active_team_ids)
       THEN run' = [run EXCEPT ![r].pc = "notify"]
       ELSE run' = [run EXCEPT ![r].pc = "team_commit",
                       ![r].snap = teams[run[r].active_team_ids[run[r].team]],
                       ![r].attempts = @ + 1]
    /\ UNCHANGED << uploads, users, storage, today, enqueued, uc, retryQ, awardQ,
                    cursor, sent, faults, ledgerLog, teams,
                    gemini_file_resource, remoteFiles,
                    summary_cache, profile_read, streak_job >>

\* variant of TeamTxnValid: the writes are applied without validating the read
TeamTxnValidUnchecked(r) == TRUE

\* the store's validation of the transaction at commit
TeamTxnValid(r) ==
    teams[run[r].active_team_ids[run[r].team]].version = run[r].snap.version

\* lines 248-261: the function's decision on the document read, and its
\* write applied at commit
TeamTxn(r) ==
    /\ run[r].pc = "team_commit"
    /\ TeamTxnValid(r)
    /\ LET team_id == run[r].active_team_ids[run[r].team]
           challenge == run[r].snap
           map == progress_updates_map(run[r].result.challengeUpdates)
       IN  IF /\ challenge.exists
              /\ challenge.status = "active"
              /\ challenge.originalChallengeId \in DOMAIN map
           THEN LET new_progress == challenge.currentProgress
                                       + map[challenge.originalChallengeId]
                IN  IF new_progress >= challenge.progressGoal
                    THEN /\ teams' = [teams EXCEPT
                                         ![team_id].currentProgress = new_progress,
                                         ![team_id].status = "completed",
                                         ![team_id].version = @ + 1]
                         /\ run' = [run EXCEPT ![r].pc = "team_pay",
                                       ![r].snap = NoResult, ![r].attempts = 0,
                                       ![r].completed_challenge = challenge]
                    ELSE /\ teams' = [teams EXCEPT
                                         ![team_id].currentProgress = new_progress,
                                         ![team_id].version = @ + 1]
                         /\ run' = [run EXCEPT ![r].pc = "team_txn",
                                       ![r].snap = NoResult, ![r].attempts = 0,
                                       ![r].team = @ + 1]
           ELSE /\ run' = [run EXCEPT ![r].pc = "team_txn",
                              ![r].snap = NoResult, ![r].attempts = 0,
                              ![r].team = @ + 1]
                /\ UNCHANGED teams
    /\ UNCHANGED << uploads, users, storage, today, enqueued, uc, retryQ, awardQ,
                    cursor, sent, faults, ledgerLog,
                    gemini_file_resource, remoteFiles,
                    summary_cache, profile_read, streak_job >>

\* the commit is aborted: run the function again, or give up and raise
TeamTxnAbort(r) ==
    /\ run[r].pc = "team_commit"
    /\ ~TeamTxnValid(r)
    /\ IF run[r].attempts < MaxTxnAttempts
       THEN run' = [run EXCEPT ![r].pc = "team_txn", ![r].snap = NoResult]
       ELSE run' = [run EXCEPT ![r].pc = "handler", ![r].snap = NoResult,
                             ![r].exc = "transaction aborted"]
    /\ UNCHANGED << uploads, users, storage, today, enqueued, uc, retryQ, awardQ,
                    cursor, sent, faults, ledgerLog, teams,
                    gemini_file_resource, remoteFiles,
                    summary_cache, profile_read, streak_job >>

\* variant of accepted_members: every member of the map, whatever its status
all_members(challenge) == { u \in Users : challenge.members[u] # "none" }

\* accepted_members, line 268
accepted_members(challenge) == { u \in Users : challenge.members[u] = "accepted" }

\* the award_bonus_points.delay calls of lines 277-278, one per member
RECURSIVE DispatchAwards(_, _, _)
DispatchAwards(q, members, amount) ==
    IF members = {} THEN q
    ELSE LET u == CHOOSE m \in members : TRUE
         IN  DispatchAwards(Append(q, [user |-> u, amount |-> amount]),
                            members \ {u}, amount)

\* ArrayRemove([team_id]), line 280
ArrayRemove(seq, x) == SelectSeq(seq, LAMBDA y : y # x)

\* variant of TeamPayout: after the payout the loop goes on with the next
\* team challenge of the list
TeamPayoutContinues(r) ==
    /\ run[r].pc = "team_pay"
    /\ LET completed_challenge == run[r].completed_challenge
           team_id == run[r].active_team_ids[run[r].team]
           members == accepted_members(completed_challenge)
           member_count == Cardinality(members)
       IN  IF member_count > 0
           THEN /\ awardQ' = DispatchAwards(awardQ, members,
                                completed_challenge.bonusPoints \div member_count)
                /\ IF \A u \in members : users[u].exists
                   THEN /\ users' = [u \in Users |->
                               IF u \in members
                               THEN [users[u] EXCEPT
                                       !.activeTeamChallenges = ArrayRemove(@, team_id),
                                       !.version = @ + 1]
                               ELSE users[u]]
                        /\ run' = [run EXCEPT ![r].pc = "team_txn", ![r].team = @ + 1]
                   ELSE /\ Raise(r, "404 No document to update")
                        /\ UNCHANGED users
           ELSE /\ run' = [run EXCEPT ![r].pc = "team_txn", ![r].team = @ + 1]
                /\ UNCHANGED << users, awardQ >>
    /\ UNCHANGED << uploads, storage, today, enqueued, uc, retryQ,
                    cursor, sent, faults, ledgerLog, teams,
                    gemini_file_resource, remoteFiles,
                    summary_cache, profile_read, streak_job >>

\* lines 265-282: the payout of the completed team challenge, then `break`;
\* the batch fails as a whole when a member document is missing
TeamPayout(r) ==
    /\ run[r].pc = "team_pay"
    /\ LET completed_challenge == run[r].completed_challenge
           team_id == run[r].active_team_ids[run[r].team]
           members == accepted_members(completed_challenge)
           member_count == Cardinality(members)
       IN  IF member_count > 0
           THEN /\ awardQ' = DispatchAwards(awardQ, members,
                                completed_challenge.bonusPoints \div member_count)
                /\ IF \A u \in members : users[u].exists
                   THEN /\ users' = [u \in Users |->
                               IF u \in members
                               THEN [users[u] EXCEPT
                                       !.activeTeamChallenges = ArrayRemove(@, team_id),
                                       !.version = @ + 1]
                               ELSE users[u]]
                        /\ run' = [run EXCEPT ![r].pc = "notify"]
                   ELSE /\ Raise(r, "404 No document to update")
                        /\ UNCHANGED users
           ELSE /\ run' = [run EXCEPT ![r].pc = "notify"]
                /\ UNCHANGED << users, awardQ >>
    /\ UNCHANGED << uploads, storage, today, enqueued, uc, retryQ,
                    cursor, sent, faults, ledgerLog, teams,
                    gemini_file_resource, remoteFiles,
                    summary_cache, profile_read, streak_job >>

\* variant of Notify: a failure to send propagates to the handler
NotifyRaises(r) ==
    /\ run[r].pc = "notify"
    /\ \/ /\ sent' = [sent EXCEPT ![run[r].job] = uploads[run[r].job].status]
          /\ run' = [run EXCEPT ![r].pc = "copy"]
          /\ UNCHANGED faults
       \/ /\ faults < MaxFaults
          /\ faults' = faults + 1
          /\ Raise(r, "messaging.send failed")
          /\ UNCHANGED sent
    /\ UNCHANGED << uploads, users, storage, today, enqueued, uc, retryQ, awardQ,
                    cursor, ledgerLog, teams,
                    gemini_file_resource, remoteFiles,
                    summary_cache, profile_read, streak_job >>

\* lines 499-500: re-read the upload document and send it; a failure to
\* send is logged by send_fcm_data_notification (lines 64-65)
Notify(r) ==
    /\ run[r].pc = "notify"
    /\ \/ /\ sent' = [sent EXCEPT ![run[r].job] = uploads[run[r].job].status]
          /\ UNCHANGED faults
       \/ /\ faults < MaxFaults
          /\ faults' = faults + 1
          /\ UNCHANGED sent
    /\ run' = [run EXCEPT ![r].pc = "copy"]
    /\ UNCHANGED << uploads, users, storage, today, enqueued, uc, retryQ, awardQ,
                    cursor, ledgerLog, teams,
                    gemini_file_resource, remoteFiles,
                    summary_cache, profile_read, streak_job >>

\* lines 502-504: upload the downloaded content under processed/
CopyProcessed(r) ==
    /\ run[r].pc = "copy"
    /\ \/ /\ storage' = [storage EXCEPT ![run[r].job] = @ \cup {"processed"}]
          /\ run' = [run EXCEPT ![r].pc = "delete"]
          /\ UNCHANGED faults
       \/ /\ faults < MaxFaults
          /\ faults' = faults + 1
          /\ Raise(r, "storage write failed")
          /\ UNCHANGED storage
    /\ UNCHANGED << uploads, users, today, enqueued, uc, retryQ, awardQ,
                    cursor, sent, ledgerLog, teams,
                    gemini_file_resource, remoteFiles,
                    summary_cache, profile_read, streak_job >>

\* line 505: source_blob.delete(), NotFound when the blob is gone
DeleteSource(r) ==
    /\ run[r].pc = "delete"
    /\ IF "incoming" \in storage[run[r].job]
       THEN /\ storage' = [storage EXCEPT ![run[r].job] = @ \ {"incoming"}]
            /\ run' = [run EXCEPT ![r].pc = "finally", ![r].outcome = "success"]
       ELSE /\ Raise(r, "404 No such object")
            /\ UNCHANGED storage
    /\ UNCHANGED << uploads, users, today, enqueued, uc, retryQ, awardQ,
                    cursor, sent, faults, ledgerLog, teams,
                    gemini_file_resource, remoteFiles,
                    summary_cache, profile_read, streak_job >>

(***************************************************************************)
(* The error handler, lines 507-531.                                       *)
(***************************************************************************)
\* line 520: upload_ref.update({'status': 'FAILED', 'errorMessage': ...})
HandlerFail(r) ==
    /\ run[r].pc = "handler"
    /\ uploads' = [uploads EXCEPT ![run[r].job].status = "FAILED",
                                  ![run[r].job].errorMessage = run[r].exc]
    /\ run' = [run EXCEPT ![r].pc = "h_notify"]
    /\ UNCHANGED << users, storage, today, enqueued, uc, retryQ, awardQ,
                    cursor, sent, faults, ledgerLog, teams,
                    gemini_file_resource, remoteFiles,
                    summary_cache, profile_read, streak_job >>

\* lines 521-522
HandlerNotify(r) ==
    /\ run[r].pc = "h_notify"
    /\ \/ /\ sent' = [sent EXCEPT ![run[r].job] = uploads[run[r].job].status]
          /\ UNCHANGED faults
       \/ /\ faults < MaxFaults
          /\ faults' = faults + 1
          /\ UNCHANGED sent
    /\ run' = [run EXCEPT ![r].pc = "h_copy"]
    /\ UNCHANGED << uploads, users, storage, today, enqueued, uc, retryQ, awardQ,
                    cursor, ledgerLog, teams,
                    gemini_file_resource, remoteFiles,
                    summary_cache, profile_read, streak_job >>

\* variant of HandlerCopy: the source is deleted whether or not the copy
\* under failed/ succeeded
HandlerCopyThenDelete(r) ==
    /\ run[r].pc = "h_copy"
    /\ IF "incoming" \in storage[run[r].job]
       THEN \/ /\ storage' = [storage EXCEPT ![run[r].job] = @ \cup {"failed"}]
               /\ run' = [run EXCEPT ![r].pc = "h_delete"]
               /\ UNCHANGED faults
            \/ /\ faults < MaxFaults
               /\ faults' = faults + 1
               /\ run' = [run EXCEPT ![r].pc = "h_delete"]
               /\ UNCHANGED storage
       ELSE /\ run' = [run EXCEPT ![r].pc = "h_retry"]
            /\ UNCHANGED << storage, faults >>
    /\ UNCHANGED << uploads, users, today, enqueued, uc, retryQ, awardQ,
                    cursor, sent, ledgerLog, teams,
                    gemini_file_resource, remoteFiles,
                    summary_cache, profile_read, streak_job >>

\* lines 523-526: copy the source under failed/ when it still exists; a
\* failure of the copy is logged (lines 529-530)
HandlerCopy(r) ==
    /\ run[r].pc = "h_copy"
    /\ IF "incoming" \in storage[run[r].job]
       THEN \/ /\ storage' = [storage EXCEPT ![run[r].job] = @ \cup {"failed"}]
               /\ run' = [run EXCEPT ![r].pc = "h_delete"]
               /\ UNCHANGED faults
            \/ /\ faults < MaxFaults
               /\ faults' = faults + 1
               /\ run' = [run EXCEPT ![r].pc = "h_retry"]
               /\ UNCHANGED storage
       ELSE /\ run' = [run EXCEPT ![r].pc = "h_retry"]
            /\ UNCHANGED << storage, faults >>
    /\ UNCHANGED << uploads, users, today, enqueued, uc, retryQ, awardQ,
                    cursor, sent, ledgerLog, teams,
                    gemini_file_resource, remoteFiles,
                    summary_cache, profile_read, streak_job >>

\* line 527: source_blob.delete(); NotFound is logged (lines 529-530)
HandlerDelete(r) ==
    /\ run[r].pc = "h_delete"
    /\ storage' = [storage EXCEPT ![run[r].job] = @ \ {"incoming"}]
    /\ run' = [run EXCEPT ![r].pc = "h_retry"]
    /\ UNCHANGED << uploads, users, today, enqueued, uc, retryQ, awardQ,
                    cursor, sent, faults, ledgerLog, teams,
                    gemini_file_resource, remoteFiles,
                    summary_cache, profile_read, streak_job >>

\* line 531: raise self.retry(exc=e); beyond max_retries the task fails
Retry(r) ==
    /\ run[r].pc = "h_retry"
    /\ IF run[r].retries < max_retries
       THEN /\ retryQ' = retryQ \cup {[job |-> run[r].job, retries |-> run[r].retries + 1]}
            /\ run' = [run EXCEPT ![r].pc = "finally", ![r].outcome = "retry"]
       ELSE /\ UNCHANGED retryQ
            /\ run' = [run EXCEPT ![r].pc = "finally", ![r].outcome = "failed"]
    /\ UNCHANGED << uploads, users, storage, today, enqueued, uc, awardQ,
                    cursor, sent, faults, ledgerLog, teams,
                    gemini_file_resource, remoteFiles,
                    summary_cache, profile_read, streak_job >>

\* client_instance.files.delete(name=gemini_file_resource.name), lines 364
\* and 535: the deletion is requested; its failure is logged
FilesDelete(files, name) == [files EXCEPT ![name] = TRUE]

\* variant of Finally: only the local temporary file is removed
FinallyLocalOnly(r) ==
    /\ run[r].pc = "finally"
    /\ run' = [run EXCEPT ![r] = [IdleRun EXCEPT !.pc = "done", !.job = run[r].job,
                                                 !.outcome = run[r].outcome]]
    /\ gemini_file_resource' = [gemini_file_resource EXCEPT ![r] = NoFile]
    /\ UNCHANGED << uploads, users, storage, today, enqueued, uc, retryQ, awardQ,
                    cursor, sent, faults, ledgerLog, teams, remoteFiles,
                    summary_cache, profile_read, streak_job >>

\* lines 532-540: the remote file still held is deleted, then the local
\* temporary file; the execution's locals are gone
Finally(r) ==
    /\ run[r].pc = "finally"
    /\ IF gemini_file_resource[r] # NoFile
       THEN remoteFiles' = FilesDelete(remoteFiles, gemini_file_resource[r])
       ELSE UNCHANGED remoteFiles
    /\ gemini_file_resource' = [gemini_file_resource EXCEPT ![r] = NoFile]
    /\ run' = [run EXCEPT ![r] = [IdleRun EXCEPT !.pc = "done", !.job = run[r].job,
                                                 !.outcome = run[r].outcome]]
    /\ UNCHANGED << uploads, users, storage, today, enqueued, uc, retryQ, awardQ,
                    cursor, sent, faults, ledgerLog, teams,
                    summary_cache, profile_read, streak_job >>

(***************************************************************************)
(* award_bonus_points, tasks.py lines 113-124.                             *)
(***************************************************************************)
RemoveAt(s, i) == [k \in 1..(Len(s) - 1) |-> IF k < i THEN s[k] ELSE s[k + 1]]

AwardBonus(i) ==
    /\ i \in DOMAIN awardQ
    /\ LET u == awardQ[i].user IN
       IF users[u].exists
       THEN /\ users' = [users EXCEPT ![u].totalPoints = @ + awardQ[i].amount,
                                      ![u].version = @ + 1]
            /\ summary_cache' = invalidate_user_summary_cache(summary_cache, u)
       ELSE UNCHANGED << users, summary_cache >>
    /\ awardQ' = RemoveAt(awardQ, i)
    /\ UNCHANGED << uploads, storage, run, today, enqueued, uc, retryQ,
                    cursor, sent, faults, ledgerLog, teams,
                    gemini_file_resource, remoteFiles,
                    profile_read, streak_job >>

Next ==
    \/ \E j \in Jobs : UploadCompleteWrite(j)
    \/ \E j \in Jobs : UploadCompleteEnqueue(j)
    \/ \E j \in Jobs : UploadCompleteQueueFail(j)
    \/ \E r \in Runs, j \in Jobs : Deliver(r, j)
    \/ \E r \in Runs, m \in retryQ : DeliverRetry(r, m)
    \/ \E r \in Runs : GuardRead(r)
    \/ \E r \in Runs : Claim(r)
    \/ \E r \in Runs : Prepare(r)
    \/ \E r \in Runs, k \in 0..(NumKeys - 1), resp \in ResultPool \cup {Garbage} :
           InferSuccess(r, k, resp)
    \/ \E r \in Runs : InferAllFail(r)
    \/ \E r \in Runs : Interpret(r)
    \/ \E r \in Runs : TxnRead(r)
    \/ \E r \in Runs : TxnCommit(r)
    \/ \E r \in Runs : TxnAbort(r)
    \/ \E r \in Runs : Reindex(r)
    \/ \E r \in Runs : Referral(r)
    \/ \E r \in Runs : TeamAggregate(r)
    \/ \E r \in Runs : Notify(r)
    \/ \E r \in Runs : CopyProcessed(r)
    \/ \E r \in Runs : DeleteSource(r)
    \/ \E r \in Runs : HandlerFail(r)
    \/ \E r \in Runs : HandlerNotify(r)
    \/ \E r \in Runs : HandlerCopy(r)
    \/ \E r \in Runs : HandlerDelete(r)
    \/ \E r \in Runs : Retry(r)
    \/ \E r \in Runs : Finally(r)
    \/ \E i \in DOMAIN awardQ : AwardBonus(i)

Spec == Init /\ [][Next]_vars
(***************************************************************************)
(* Properties of the pipeline.                                             *)
(***************************************************************************)
LedgerEntries(j) == { i \in DOMAIN ledgerLog : ledgerLog[i].job = j }

\* C1: a job whose message was enqueued once is applied to the owner's
\* totalPoints by at most one ledger transaction, whatever the duplicate
\* deliveries of that message.
ScoredAtMostOnce ==
    \A j \in Jobs : uc[j].calls <= 1 => Cardinality(LedgerEntries(j)) <= 1

\* C2: the claim step is an atomic check-and-set: two executions of one job
\* are never both between a successful status check and the write of
\* PROCESSING.
ClaimIsAtomic ==
    \A r1, r2 \in Runs :
        (r1 # r2 /\ run[r1].job = run[r2].job)
            => ~(run[r1].pc = "claim" /\ run[r2].pc = "claim")

\* C3: an execution whose status check found the job COMPLETED or FAILED
\* stops there and never changes a user document.
ReplayTerminalNoEffect ==
    [][\A r \in Runs :
          ((run[r].observed \in Terminal \/ run'[r].observed \in Terminal)
             /\ run'[r] # run[r])
          => /\ users' = users
             /\ ledgerLog' = ledgerLog
             /\ run'[r].pc \in {"finally", "done"}]_vars

WitnessReplayTerminal ==
    \E r \in Runs :
        /\ run[r].pc = "finally"
        /\ run[r].observed \in Terminal
        /\ users[JobOwner[run[r].job]].totalPoints > 0

\* C4: an execution that finds the job document missing or in a status other
\* than PENDING_ANALYSIS changes no upload document, no user, not the
\* rotation cursor, not the stored media, sends nothing, dispatches nothing
\* and never reaches inference.
GuardAbortFrame ==
    [][\A r \in Runs :
          (((run[r].pc = "guard" /\ uploads[run[r].job].status # "PENDING_ANALYSIS")
              \/ run[r].outcome = "aborted")
             /\ run'[r] # run[r])
          => /\ UNCHANGED << uploads, users, cursor, storage, sent, awardQ,
                             retryQ, ledgerLog >>
             /\ run'[r].result = NoResult
             /\ run'[r].pc \in {"finally", "done"}]_vars

WitnessGuardAbort ==
    \E r \in Runs :
        /\ run[r].pc = "finally"
        /\ run[r].outcome = "aborted"
        /\ run[r].observed = "PROCESSING_AI"

\* C5: once the status of a job is COMPLETED or FAILED no step changes it.
TerminalIsFinal ==
    [][\A j \in Jobs :
          uploads[j].status \in Terminal => uploads'[j].status = uploads[j].status]_vars

\* C6: a user document carries the effects of a job only while that job is
\* COMPLETED with the result stored, and a job completed through the ledger
\* with an existing user has its effects in the user document.  Stated
\* for jobs whose upload completion was requested once.
LedgerCommitObservedWhole ==
    /\ \A i \in DOMAIN ledgerLog :
          uc[ledgerLog[i].job].calls <= 1
          => /\ uploads[ledgerLog[i].job].status = "COMPLETED"
             /\ uploads[ledgerLog[i].job].aiResult = ledgerLog[i].result
    /\ \A j \in Jobs :
          (/\ uploads[j].status = "COMPLETED"
           /\ uploads[j].aiResult # NoResult
           /\ ~uploads[j].aiResult.error
           /\ users[JobOwner[j]].exists)
          => LedgerEntries(j) # {}

\* the precondition of C8
LowComponentsNonzeroFinal(res) ==
    /\ ~res.error
    /\ res.baseScore <= 1 /\ res.effortScore <= 1 /\ res.creativityScore <= 1
    /\ res.finalScore # 0

\* C8: a result without error field whose component scores are all <= 1 and
\* whose finalScore is nonzero has no ledger effect.
LowScoresHaveNoEffect ==
    \A i \in DOMAIN ledgerLog :
        LowComponentsNonzeroFinal(ledgerLog[i].result)
        => /\ ledgerLog[i].after.totalPoints = ledgerLog[i].before.totalPoints
           /\ ledgerLog[i].after.challengeProgress = ledgerLog[i].before.challengeProgress
           /\ ledgerLog[i].after.completedChallengeIds
                 = ledgerLog[i].before.completedChallengeIds

\* C9: an execution in which the low-confidence override fired ends with
\* the job COMPLETED and the zeroed result stored.
OverrideCompletes ==
    \A r \in Runs :
        (run[r].pc = "finally" /\ run[r].overridden /\ run[r].outcome = "success")
        => /\ uploads[run[r].job].status = "COMPLETED"
           /\ uploads[run[r].job].aiResult = OverrideResult(run[r].result)

\* C10: an execution whose parsed result carries an error field ends as a
\* success: job COMPLETED with that result stored, no retry requested, media
\* under processed/.  Stated for behaviours without infrastructure failure
\* and jobs whose upload completion was requested once.
ErrorResultIsSuccess ==
    \A r \in Runs :
        (/\ faults = 0
         /\ run[r].job \in Jobs /\ uc[run[r].job].calls <= 1
         /\ run[r].pc = "finally"
         /\ run[r].result \notin {NoResult, Garbage}
         /\ run[r].result.error)
        => /\ run[r].outcome = "success"
           /\ uploads[run[r].job].status = "COMPLETED"
           /\ "processed" \in storage[run[r].job]
\* C11: when no extraction strategy yields a JSON object the run ends with the
\* job FAILED with an error message and the media under failed/, and once
\* the content error is recorded no inference call is made for that job
\* again.  The end of the run is stated for behaviours without
\* infrastructure failure and one upload-completion call.
ContentErrorIsFinal ==
    [][\A r \in Runs :
          run[r].job \in Jobs =>
          LET j == run[r].job IN
          /\ (/\ run[r].exc = ParseError
              /\ run[r].pc = "h_retry" /\ run'[r].pc = "finally"
              /\ faults = 0 /\ uc[j].calls <= 1)
             => /\ uploads'[j].status = "FAILED"
                /\ uploads'[j].errorMessage # NoError
                /\ storage'[j] = {"failed"}
                /\ LedgerEntries(j) = {}
          /\ (uploads[j].errorMessage = ParseError /\ uc[j].calls <= 1)
             => ~(run[r].pc = "infer" /\ run'[r].pc # "infer")]_vars
\* C19: when every credential failed in an execution of a job, the job
\* ends FAILED with its source media under failed/.  Stated for jobs with
\* one upload-completion call, in states where no execution of the job is
\* active and the recorded error is the credential failure.
AllFailEndsFailed ==
    \A j \in Jobs :
        (/\ uc[j].calls <= 1
         /\ uploads[j].status # "MISSING"
         /\ uploads[j].errorMessage = "credential failed"
         /\ \A r \in Runs : run[r].job = j => run[r].pc = "done")
        => /\ uploads[j].status = "FAILED"
           /\ storage[j] = {"failed"}

\* C20: the task-queue retry of an execution that failed with a retryable
\* error (every credential failed, or the ledger transaction was aborted)
\* re-runs the pipeline: it is not turned away at the status check by the
\* FAILED status the failed execution left.
RetryRerunsPipeline ==
    \A r \in Runs :
        (/\ run[r].retries > 0 /\ run[r].pc = "finally"
         /\ uploads[run[r].job].errorMessage
               \in {"credential failed", "transaction aborted"})
        => ~(run[r].outcome = "aborted" /\ run[r].observed = "FAILED")
(***************************************************************************)
(* The ledger under concurrent jobs of one user: both uploads of u1 have   *)
(* been completed and enqueued; executions are followed up to the commit   *)
(* of the ledger transaction while the calendar advances.                  *)
(***************************************************************************)
LedgerPool == { RScore, RProgress }

InitLedger ==
    /\ uploads = [j \in Jobs |-> [NewUpload EXCEPT !.status = "PENDING_ANALYSIS"]]
    /\ users = [u \in Users |-> NewUser(IF u = "u1" THEN "u2" ELSE NoUser)]
    /\ storage = [j \in Jobs |-> {"incoming"}]
    /\ run = [r \in Runs |-> IdleRun]
    /\ today = 0
    /\ enqueued = [j \in Jobs |-> TRUE]
    /\ uc = [j \in Jobs |-> [pc |-> "idle", calls |-> 1]]
    /\ retryQ = {}
    /\ awardQ = << >>
    /\ cursor = 0
    /\ sent = [j \in Jobs |-> "none"]
    /\ faults = MaxFaults
    /\ ledgerLog = << >>
    /\ teams = [t \in Teams |-> NoTeam]
    /\ gemini_file_resource = [r \in Runs |-> NoFile]
    /\ remoteFiles = << >>
    /\ summary_cache = [u \in Users |-> NoSummary]
    /\ profile_read = NoProfileRead
    /\ streak_job = [pc |-> "idle", last |-> NoDate, batch |-> {}]

NextLedger ==
    \/ Tick
    \/ \E r \in Runs, j \in Jobs : Deliver(r, j)
    \/ \E r \in Runs : GuardRead(r)
    \/ \E r \in Runs : Claim(r)
    \/ \E r \in Runs : Prepare(r)
    \/ \E r \in Runs, resp \in LedgerPool : InferSuccess(r, 0, resp)
    \/ \E r \in Runs : Interpret(r)
    \/ \E r \in Runs : TxnRead(r)
    \/ \E r \in Runs : TxnCommit(r)
    \/ \E r \in Runs : TxnAbort(r)

SpecLedger == InitLedger /\ [][NextLedger]_vars

\* the user document after the first n committed ledger transactions
\* applied one after the other, in commit order
RECURSIVE SerialState(_)
SerialState(n) ==
    IF n = 0 THEN NewUser("u2")
    ELSE [LedgerUpdate(SerialState(n - 1), ledgerLog[n].result,
                       ledgerLog[n].today, ledgerLog[n].now)
             EXCEPT !.version = @ + 1]

\* bonus points credited by the n-th committed transaction
SerialBonus(n) ==
    ChallengeLoop([bonus_points |-> 0, newly_completed_ids |-> << >>,
                   challenge_progress |-> ledgerLog[n].before.challengeProgress],
                  ledgerLog[n].result.challengeUpdates,
                  ledgerLog[n].before.completedChallengeIds).bonus_points

RECURSIVE SerialPoints(_)
SerialPoints(n) ==
    IF n = 0 THEN 0
    ELSE SerialPoints(n - 1) + ledgerLog[n].result.finalScore + SerialBonus(n)

\* C7: the ledger transactions of concurrent jobs of one user serialize: the
\* user document equals the committed jobs applied one after the other, and
\* totalPoints is the sum of their finalScores and credited bonuses.
LedgerSerializes ==
    /\ users["u1"] = SerialState(Len(ledgerLog))
    /\ users["u1"].totalPoints = SerialPoints(Len(ledgerLog))

WitnessLedgerContention ==
    /\ Len(ledgerLog) = 2
    /\ ledgerLog[1].job # ledgerLog[2].job
    /\ run[ledgerLog[2].run].attempts = 2
(***************************************************************************)
(* Redelivery without infrastructure failure: upload completion of j1 has  *)
(* been requested once and its message is in the queue; the pipeline runs  *)
(* with duplicate deliveries and Celery retries, the provider answering    *)
(* with a scorable result, an error result or an unparsable text.          *)
(***************************************************************************)
ReplayPool == { RScore, RError, Garbage }

InitReplay ==
    /\ uploads = [j \in Jobs |-> IF j = "j1"
                                 THEN [NewUpload EXCEPT !.status = "PENDING_ANALYSIS"]
                                 ELSE MissingUpload]
    /\ users = [u \in Users |-> NewUser(IF u = "u1" THEN "u2" ELSE NoUser)]
    /\ storage = [j \in Jobs |-> {"incoming"}]
    /\ run = [r \in Runs |-> IdleRun]
    /\ today = 0
    /\ enqueued = [j \in Jobs |-> TRUE]
    /\ uc = [j \in Jobs |-> [pc |-> "idle", calls |-> IF j = "j1" THEN 1 ELSE 0]]
    /\ retryQ = {}
    /\ awardQ = << >>
    /\ cursor = 0
    /\ sent = [j \in Jobs |-> "none"]
    /\ faults = MaxFaults
    /\ ledgerLog = << >>
    /\ teams = [t \in Teams |-> NoTeam]
    /\ gemini_file_resource = [r \in Runs |-> NoFile]
    /\ remoteFiles = << >>
    /\ summary_cache = [u \in Users |-> NoSummary]
    /\ profile_read = NoProfileRead
    /\ streak_job = [pc |-> "idle", last |-> NoDate, batch |-> {}]

NextReplay ==
    \/ \E r \in Runs, j \in Jobs : Deliver(r, j)
    \/ \E r \in Runs, m \in retryQ : DeliverRetry(r, m)
    \/ \E r \in Runs : GuardRead(r)
    \/ \E r \in Runs : Claim(r)
    \/ \E r \in Runs : Prepare(r)
    \/ \E r \in Runs, resp \in ReplayPool : InferSuccess(r, 0, resp)
    \/ \E r \in Runs : Interpret(r)
    \/ \E r \in Runs : TxnRead(r)
    \/ \E r \in Runs : TxnCommit(r)
    \/ \E r \in Runs : TxnAbort(r)
    \/ \E r \in Runs : Reindex(r)
    \/ \E r \in Runs : Referral(r)
    \/ \E r \in Runs : TeamAggregate(r)
    \/ \E r \in Runs : Notify(r)
    \/ \E r \in Runs : CopyProcessed(r)
    \/ \E r \in Runs : DeleteSource(r)
    \/ \E r \in Runs : HandlerFail(r)
    \/ \E r \in Runs : HandlerNotify(r)
    \/ \E r \in Runs : HandlerCopy(r)
    \/ \E r \in Runs : HandlerDelete(r)
    \/ \E r \in Runs : Retry(r)
    \/ \E r \in Runs : Finally(r)
    \/ \E i \in DOMAIN awardQ : AwardBonus(i)

SpecReplay == InitReplay /\ [][NextReplay]_vars
(***************************************************************************)
(* A job whose user document is gone: upload completion of j1 has been     *)
(* requested once and the document of its owner u1 has been removed from   *)
(* the store since; the team challenge t1, derived from c2, still lists u1 *)
(* among its members.  No team transaction, award or ledger contention can *)
(* occur from this state, so those actions are not part of the next-state  *)
(* relation.                                                               *)
(***************************************************************************)
OrphanPool == { RProgress, RScore, Garbage }

\* no document under this id in 'users'
MissingUser == [NewUser(NoUser) EXCEPT !.exists = FALSE]

TeamOfC2 ==
    [exists |-> TRUE, version |-> 0, status |-> "active", originalChallengeId |-> "c2",
     currentProgress |-> 3, progressGoal |-> 5, bonusPoints |-> 100,
     members |-> [u \in Users |-> "accepted"]]

InitOrphan ==
    /\ uploads = [j \in Jobs |-> IF j = "j1"
                                 THEN [NewUpload EXCEPT !.status = "PENDING_ANALYSIS"]
                                 ELSE MissingUpload]
    /\ users = [u \in Users |->
                    IF u = "u1" THEN MissingUser
                    ELSE [NewUser(NoUser) EXCEPT !.activeTeamChallenges = << "t1" >>]]
    /\ storage = [j \in Jobs |-> {"incoming"}]
    /\ run = [r \in Runs |-> IdleRun]
    /\ today = 0
    /\ enqueued = [j \in Jobs |-> j = "j1"]
    /\ uc = [j \in Jobs |-> [pc |-> "idle", calls |-> IF j = "j1" THEN 1 ELSE 0]]
    /\ retryQ = {}
    /\ awardQ = << >>
    /\ cursor = 0
    /\ sent = [j \in Jobs |-> "none"]
    /\ faults = MaxFaults
    /\ ledgerLog = << >>
    /\ teams = [t \in Teams |-> IF t = "t1" THEN TeamOfC2 ELSE NoTeam]
    /\ gemini_file_resource = [r \in Runs |-> NoFile]
    /\ remoteFiles = << >>
    /\ summary_cache = [u \in Users |-> NoSummary]
    /\ profile_read = NoProfileRead
    /\ streak_job = [pc |-> "idle", last |-> NoDate, batch |-> {}]

NextOrphan ==
    \/ \E r \in Runs, j \in Jobs : Deliver(r, j)
    \/ \E r \in Runs, m \in retryQ : DeliverRetry(r, m)
    \/ \E r \in Runs : GuardRead(r)
    \/ \E r \in Runs : Claim(r)
    \/ \E r \in Runs : Prepare(r)
    \/ \E r \in Runs, resp \in OrphanPool : InferSuccess(r, 0, resp)
    \/ \E r \in Runs : Interpret(r)
    \/ \E r \in Runs : TxnRead(r)
    \/ \E r \in Runs : TxnCommit(r)
    \/ \E r \in Runs : Reindex(r)
    \/ \E r \in Runs : Referral(r)
    \/ \E r \in Runs : TeamAggregate(r)
    \/ \E r \in Runs : Notify(r)
    \/ \E r \in Runs : CopyProcessed(r)
    \/ \E r \in Runs : DeleteSource(r)
    \/ \E r \in Runs : HandlerFail(r)
    \/ \E r \in Runs : HandlerNotify(r)
    \/ \E r \in Runs : HandlerCopy(r)
    \/ \E r \in Runs : HandlerDelete(r)
    \/ \E r \in Runs : Retry(r)
    \/ \E r \in Runs : Finally(r)

SpecOrphan == InitOrphan /\ [][NextOrphan]_vars

\* C12: when the owner's user document does not exist, the ledger
\* transaction still sets the job COMPLETED with the result stored, and the
\* run creates or changes no user document, dispatches no award and applies
\* no team-challenge progress.
OrphanJobFinalized ==
    [][\A r \in Runs :
          (/\ run[r].job \in Jobs
           /\ ~users[JobOwner[run[r].job]].exists
           /\ run'[r] # run[r])
          => /\ users' = users
             /\ awardQ' = awardQ
             /\ teams' = teams
             /\ ledgerLog' = ledgerLog
             /\ run'[r].pc \notin {"team_txn", "team_pay"}
             /\ (run[r].pc = "txn_commit" /\ run'[r].pc # "txn_commit")
                => /\ run'[r].pc = "reindex"
                   /\ uploads'[run[r].job].status = "COMPLETED"
                   /\ uploads'[run[r].job].aiResult = run[r].result]_vars

WitnessOrphanJob ==
    \E r \in Runs :
        /\ run[r].pc = "finally" /\ run[r].outcome = "success"
        /\ run[r].result = RProgress
        /\ ~users[JobOwner[run[r].job]].exists
        /\ uploads[run[r].job].status = "COMPLETED"
        /\ uploads[run[r].job].aiResult = RProgress
        /\ teams["t1"] = TeamOfC2
(***************************************************************************)
(* The ledger on responses the provider is free to return: both uploads of *)
(* u1 have been completed and enqueued; the response may carry a negative  *)
(* finalScore or name a challenge twice.  Executions are followed up to    *)
(* the commit of the ledger transaction.                                   *)
(***************************************************************************)
StatsPool == { RScore, RNegative, RTwice }

NextStats ==
    \/ \E r \in Runs, j \in Jobs : Deliver(r, j)
    \/ \E r \in Runs : GuardRead(r)
    \/ \E r \in Runs : Claim(r)
    \/ \E r \in Runs : Prepare(r)
    \/ \E r \in Runs, resp \in StatsPool : InferSuccess(r, 0, resp)
    \/ \E r \in Runs : Interpret(r)
    \/ \E r \in Runs : TxnRead(r)
    \/ \E r \in Runs : TxnCommit(r)
    \/ \E r \in Runs : TxnAbort(r)

SpecStats == InitLedger /\ [][NextStats]_vars

\* C13: every committed ledger transaction leaves totalPoints at least as
\* large as the value it read, and never negative.
PointsNeverDecrease ==
    \A i \in DOMAIN ledgerLog :
        /\ ledgerLog[i].after.totalPoints >= ledgerLog[i].before.totalPoints
        /\ ledgerLog[i].after.totalPoints >= 0

\* bonus points credited by the committed transactions: what each added to
\* totalPoints beyond the finalScore
RECURSIVE CreditedBonus(_)
CreditedBonus(n) ==
    IF n = 0 THEN 0
    ELSE CreditedBonus(n - 1)
         + (ledgerLog[n].after.totalPoints - ledgerLog[n].before.totalPoints
            - ledgerLog[n].result.finalScore)

RECURSIVE BonusOf(_)
BonusOf(cids) ==
    IF cids = {} THEN 0
    ELSE LET c == CHOOSE x \in cids : TRUE
         IN  challenge_map(c).bonusPoints + BonusOf(cids \ {c})

\* C14: over the committed transactions of a user each challenge's bonus
\* is credited at most once, also when a list names a challenge twice, and
\* a challenge already completed is neither credited nor progressed again.
BonusAtMostOnce ==
    /\ CreditedBonus(Len(ledgerLog)) <= BonusOf(users["u1"].completedChallengeIds)
    /\ \A i \in DOMAIN ledgerLog : \A c \in ledgerLog[i].before.completedChallengeIds :
          ProgressGet(ledgerLog[i].after.challengeProgress, c)
             = ProgressGet(ledgerLog[i].before.challengeProgress, c)
(***************************************************************************)
(* A progress challenge over a sequence of jobs: both uploads of u1 have   *)
(* been completed and enqueued and every response reports one increment,   *)
(* +2 or +3, for the progress challenge c2 (goal 5, bonus 20).             *)
(***************************************************************************)
ProgressPool == { RProgress2, RProgress }

NextProgress ==
    \/ \E r \in Runs, j \in Jobs : Deliver(r, j)
    \/ \E r \in Runs : GuardRead(r)
    \/ \E r \in Runs : Claim(r)
    \/ \E r \in Runs : Prepare(r)
    \/ \E r \in Runs, resp \in ProgressPool : InferSuccess(r, 0, resp)
    \/ \E r \in Runs : Interpret(r)
    \/ \E r \in Runs : TxnRead(r)
    \/ \E r \in Runs : TxnCommit(r)
    \/ \E r \in Runs : TxnAbort(r)

SpecProgress == InitLedger /\ [][NextProgress]_vars

\* sum of the increments reported for c2 by the first n committed jobs
RECURSIVE SumIncrements(_)
SumIncrements(n) ==
    IF n = 0 THEN 0
    ELSE SumIncrements(n - 1) + ledgerLog[n].result.challengeUpdates[1].progress

RECURSIVE SumScores(_)
SumScores(n) ==
    IF n = 0 THEN 0 ELSE SumScores(n - 1) + ledgerLog[n].result.finalScore

\* C15: while the sum of the reported increments is below the goal,
\* challengeProgress holds that sum and nothing is credited; the update at
\* which the sum reaches the goal completes the challenge, removes its
\* progress entry and credits its bonus, once.
ProgressAccumulates ==
    LET goal == challenge_map("c2").progressGoal
        n == Len(ledgerLog)
        u == users["u1"]
    IN  /\ \A k \in 1..n :
              "c2" \in ledgerLog[k].after.completedChallengeIds
                 <=> SumIncrements(k) >= goal
        /\ IF SumIncrements(n) < goal
           THEN /\ ProgressGet(u.challengeProgress, "c2") = SumIncrements(n)
                /\ u.totalPoints = SumScores(n)
           ELSE /\ "c2" \notin DOMAIN u.challengeProgress
                /\ u.totalPoints = SumScores(n) + challenge_map("c2").bonusPoints

WitnessProgressCompletes ==
    /\ Len(ledgerLog) = 2
    /\ ledgerLog[1].result = RProgress2 /\ ledgerLog[2].result = RProgress
    /\ ProgressGet(ledgerLog[1].after.challengeProgress, "c2") = 2
    /\ "c2" \in users["u1"].completedChallengeIds
    /\ "c2" \notin DOMAIN users["u1"].challengeProgress
    /\ users["u1"].totalPoints = 46
(***************************************************************************)
(* The streak rule on users with a history: upload completion of j1 has    *)
(* been requested once; its owner u1 either never had a ledger commit or   *)
(* had the last one on some day up to today, with a current streak of 0    *)
(* (reset by reset_inactive_streaks), 1 or 2.  The calendar advances while *)
(* executions are followed up to the commit.                               *)
(***************************************************************************)
StreakPool == { RScore }

\* a user document whose last ledger commit was on day d
UserWithStreak(d, c) ==
    [NewUser("u2") EXCEPT !.lastStreakDate = d, !.currentStreak = c,
                          !.maxStreak = 2, !.hasCompletedFirstUpload = TRUE]

InitStreak ==
    /\ uploads = [j \in Jobs |-> IF j = "j1"
                                 THEN [NewUpload EXCEPT !.status = "PENDING_ANALYSIS"]
                                 ELSE MissingUpload]
    /\ today \in 0..(MaxDay + 1)
    /\ \E d \in {NoDate} \cup 0..today, c \in 0..2 :
          /\ d = today => c >= 1     \* a streak is reset only on a later day
          /\ users = [u \in Users |->
                         IF u # "u1" THEN NewUser(NoUser)
                         ELSE IF d = NoDate THEN NewUser("u2")
                         ELSE UserWithStreak(d, c)]
    /\ storage = [j \in Jobs |-> {"incoming"}]
    /\ run = [r \in Runs |-> IdleRun]
    /\ enqueued = [j \in Jobs |-> j = "j1"]
    /\ uc = [j \in Jobs |-> [pc |-> "idle", calls |-> IF j = "j1" THEN 1 ELSE 0]]
    /\ retryQ = {}
    /\ awardQ = << >>
    /\ cursor = 0
    /\ sent = [j \in Jobs |-> "none"]
    /\ faults = MaxFaults
    /\ ledgerLog = << >>
    /\ teams = [t \in Teams |-> NoTeam]
    /\ gemini_file_resource = [r \in Runs |-> NoFile]
    /\ remoteFiles = << >>
    /\ summary_cache = [u \in Users |-> NoSummary]
    /\ profile_read = NoProfileRead
    /\ streak_job = [pc |-> "idle", last |-> NoDate, batch |-> {}]

NextStreak ==
    \/ Tick
    \/ \E r \in Runs, j \in Jobs : Deliver(r, j)
    \/ \E r \in Runs : GuardRead(r)
    \/ \E r \in Runs : Claim(r)
    \/ \E r \in Runs : Prepare(r)
    \/ \E r \in Runs, resp \in StreakPool : InferSuccess(r, 0, resp)
    \/ \E r \in Runs : Interpret(r)
    \/ \E r \in Runs : TxnRead(r)
    \/ \E r \in Runs : TxnCommit(r)
    \/ \E r \in Runs : TxnAbort(r)

SpecStreak == InitStreak /\ [][NextStreak]_vars

\* C16: a committed ledger transaction sets currentStreak from the date of
\* the last streak timestamp it read and the WIB date taken for the
\* transaction: no timestamp gives 1, yesterday gives the prior streak + 1,
\* the same day leaves the streak, an earlier day gives 1.
StreakRule ==
    \A i \in DOMAIN ledgerLog :
        LET prior == ledgerLog[i].before.lastStreakDate
            streak == ledgerLog[i].before.currentStreak
            today_wib_date == ledgerLog[i].today
            new == ledgerLog[i].after.currentStreak
        IN  /\ prior = NoDate => new = 1
            /\ (prior # NoDate /\ prior = today_wib_date - 1) => new = streak + 1
            /\ (prior # NoDate /\ prior = today_wib_date) => new = streak
            /\ (prior # NoDate /\ prior < today_wib_date - 1) => new = 1

WitnessStreakCases ==
    /\ Len(ledgerLog) = 2
    /\ ledgerLog[1].before.lastStreakDate = ledgerLog[1].today - 1
    /\ ledgerLog[1].before.currentStreak = 2
    /\ ledgerLog[1].after.currentStreak = 3
    /\ ledgerLog[2].before.lastStreakDate = ledgerLog[2].today
    /\ ledgerLog[2].after.currentStreak = 3
(***************************************************************************)
(* The credential loop of lines 326-373, one attempt at a time.  tried is  *)
(* the list of the attempts of the execution: the index used and whether   *)
(* upload, polling and generation all succeeded.  InferSuccess and         *)
(* InferAllFail above are this loop taken as one step.                     *)
(***************************************************************************)
\* lines 326-327: start_index = int(redis_client.get(...) or 0)
ReadCursor(r) ==
    /\ run[r].pc = "infer"
    /\ \/ /\ run' = [run EXCEPT ![r].pc = "attempt", ![r].start_index = cursor,
                                ![r].i = 0]
          /\ UNCHANGED faults
       \/ /\ faults < MaxFaults
          /\ faults' = faults + 1
          /\ Raise(r, "Cannot connect to Redis for API key management.")
    /\ UNCHANGED << uploads, users, storage, today, enqueued, uc, retryQ, awardQ,
                    cursor, sent, ledgerLog, teams,
                    gemini_file_resource, remoteFiles,
                    summary_cache, profile_read, streak_job >>

\* variant of current_index: the shared cursor is read again at every attempt
current_index_rereads_cursor(r) == (cursor + run[r].i) % NumKeys

\* line 332: current_index = (start_index + i) % len(ACTIVE_GEMINI_KEYS)
current_index(r) == (run[r].start_index + run[r].i) % NumKeys

\* variant of AttemptFail: a failed credential moves the shared cursor on
AttemptFailRotates(r) ==
    /\ run[r].pc = "attempt"
    /\ cursor' = (current_index(r) + 1) % NumKeys
    /\ IF run[r].i = NumKeys - 1
       THEN run' = [run EXCEPT ![r].pc = "handler", ![r].exc = "credential failed",
                       ![r].tried = Append(@, [index |-> current_index(r), ok |-> FALSE])]
       ELSE run' = [run EXCEPT ![r].i = @ + 1,
                       ![r].tried = Append(@, [index |-> current_index(r), ok |-> FALSE])]
    /\ UNCHANGED << uploads, users, storage, today, enqueued, uc, retryQ, awardQ,
                    sent, faults, ledgerLog, teams,
                    gemini_file_resource, remoteFiles,
                    summary_cache, profile_read, streak_job >>

\* lines 333-356 raise and lines 359-370: the attempt with this credential
\* failed; the last credential re-raises, any other continues with the next
AttemptFail(r) ==
    /\ run[r].pc = "attempt"
    /\ IF run[r].i = NumKeys - 1
       THEN run' = [run EXCEPT ![r].pc = "handler", ![r].exc = "credential failed",
                       ![r].tried = Append(@, [index |-> current_index(r), ok |-> FALSE])]
       ELSE run' = [run EXCEPT ![r].i = @ + 1,
                       ![r].tried = Append(@, [index |-> current_index(r), ok |-> FALSE])]
    /\ UNCHANGED << uploads, users, storage, today, enqueued, uc, retryQ, awardQ,
                    cursor, sent, faults, ledgerLog, teams,
                    gemini_file_resource, remoteFiles,
                    summary_cache, profile_read, streak_job >>

\* lines 333-360: the attempt succeeded, the cursor is set and the loop
\* left; line 373 raises when the response text is empty
AttemptSuccess(r, resp) ==
    /\ run[r].pc = "attempt"
    /\ cursor' = current_index(r)
    /\ IF resp = EmptyResponse
       THEN run' = [run EXCEPT ![r].pc = "handler",
                       ![r].exc = "All Gemini API keys failed.",
                       ![r].tried = Append(@, [index |-> current_index(r), ok |-> TRUE])]
       ELSE run' = [run EXCEPT ![r].pc = "interpret", ![r].result = resp,
                       ![r].tried = Append(@, [index |-> current_index(r), ok |-> TRUE])]
    /\ UNCHANGED << uploads, users, storage, today, enqueued, uc, retryQ, awardQ,
                    sent, faults, ledgerLog, teams,
                    gemini_file_resource, remoteFiles,
                    summary_cache, profile_read, streak_job >>

(***************************************************************************)
(* Credential rotation under concurrent executions: both uploads of u1     *)
(* have been completed and enqueued, the cursor holds any index, and       *)
(* executions are followed to the end of the credential loop.              *)
(***************************************************************************)
RotatePool == { RScore, EmptyResponse }

InitRotate ==
    /\ uploads = [j \in Jobs |-> [NewUpload EXCEPT !.status = "PENDING_ANALYSIS"]]
    /\ users = [u \in Users |-> NewUser(IF u = "u1" THEN "u2" ELSE NoUser)]
    /\ storage = [j \in Jobs |-> {"incoming"}]
    /\ run = [r \in Runs |-> IdleRun]
    /\ today = 0
    /\ enqueued = [j \in Jobs |-> TRUE]
    /\ uc = [j \in Jobs |-> [pc |-> "idle", calls |-> 1]]
    /\ retryQ = {}
    /\ awardQ = << >>
    /\ cursor \in 0..(NumKeys - 1)
    /\ sent = [j \in Jobs |-> "none"]
    /\ faults = 0
    /\ ledgerLog = << >>
    /\ teams = [t \in Teams |-> NoTeam]
    /\ gemini_file_resource = [r \in Runs |-> NoFile]
    /\ remoteFiles = << >>
    /\ summary_cache = [u \in Users |-> NoSummary]
    /\ profile_read = NoProfileRead
    /\ streak_job = [pc |-> "idle", last |-> NoDate, batch |-> {}]

NextRotate ==
    \/ \E r \in Runs, j \in Jobs : Deliver(r, j)
    \/ \E r \in Runs : GuardRead(r)
    \/ \E r \in Runs : Claim(r)
    \/ \E r \in Runs : Prepare(r)
    \/ \E r \in Runs : ReadCursor(r)
    \/ \E r \in Runs : AttemptFail(r)
    \/ \E r \in Runs, resp \in RotatePool : AttemptSuccess(r, resp)

SpecRotate == InitRotate /\ [][NextRotate]_vars

\* C17: within one execution the k-th attempt (k = 0..N-1) uses credential
\* (c + k) mod N, c being the cursor value read at the start; an attempt is
\* made only after the previous one failed, no credential is tried twice
\* and no attempt follows a success.
RotationOrder ==
    \A r \in Runs :
        LET tried == run[r].tried IN
        /\ Len(tried) <= NumKeys
        /\ \A k \in DOMAIN tried :
              /\ tried[k].index = (run[r].start_index + (k - 1)) % NumKeys
              /\ k < Len(tried) => ~tried[k].ok
        /\ \A k1, k2 \in DOMAIN tried : tried[k1].index = tried[k2].index => k1 = k2
        /\ (tried # << >> /\ tried[Len(tried)].ok) => run[r].pc # "attempt"

WitnessRotationWraps ==
    \E r \in Runs :
        /\ run[r].start_index = NumKeys - 1
        /\ Len(run[r].tried) = 2
        /\ run[r].tried[1] = [index |-> NumKeys - 1, ok |-> FALSE]
        /\ run[r].tried[2] = [index |-> 0, ok |-> TRUE]
        /\ \E q \in Runs : q # r /\ run[q].tried # << >>

\* C18: the cursor is written only by an attempt that succeeded, with the
\* index of its credential; a failed attempt, and so an execution in which
\* every credential fails, leaves it unchanged, whatever the other
\* executions do.
CursorOnlyOnSuccess ==
    [][/\ cursor' # cursor =>
            \E r \in Runs :
                /\ run[r].pc = "attempt"
                /\ Len(run'[r].tried) = Len(run[r].tried) + 1
                /\ run'[r].tried[Len(run'[r].tried)].ok
                /\ cursor' = run'[r].tried[Len(run'[r].tried)].index
       /\ \A r \in Runs :
             (/\ Len(run'[r].tried) = Len(run[r].tried) + 1
              /\ ~run'[r].tried[Len(run'[r].tried)].ok)
             => cursor' = cursor]_vars

WitnessAllFailKeepsCursor ==
    \E r, q \in Runs :
        /\ r # q
        /\ run[r].pc = "handler" /\ run[r].exc = "credential failed"
        /\ Len(run[r].tried) = NumKeys
        /\ run[q].tried # << >> /\ run[q].tried[Len(run[q].tried)].ok
        /\ cursor = run[q].tried[Len(run[q].tried)].index
        /\ cursor # run[r].start_index
(***************************************************************************)
(* The credential loop with the remote file followed: the attempt of       *)
(* AttemptFail and AttemptSuccess split at the calls to the provider.  A   *)
(* file is named by the execution and the attempt that uploaded it.        *)
(***************************************************************************)
\* lines 337-341: genai.Client(...) and client_instance.files.upload(...);
\* either call may raise
FilesUpload(r) ==
    /\ run[r].pc = "attempt"
    /\ \/ /\ gemini_file_resource' =
                 [gemini_file_resource EXCEPT ![r] = << r, run[r].i >>]
          /\ remoteFiles' = (<< r, run[r].i >> :> FALSE) @@ remoteFiles
          /\ run' = [run EXCEPT ![r].pc = "poll"]
       \/ /\ run' = [run EXCEPT ![r].pc = "except"]
          /\ UNCHANGED << gemini_file_resource, remoteFiles >>
    /\ UNCHANGED << uploads, users, storage, today, enqueued, uc, retryQ, awardQ,
                    cursor, sent, faults, ledgerLog, teams,
                    summary_cache, profile_read, streak_job >>

\* lines 343-346: polling ends with the file ready, or with state FAILED or
\* a failed files.get, which raise
PollFile(r) ==
    /\ run[r].pc = "poll"
    /\ \/ run' = [run EXCEPT ![r].pc = "generate"]
       \/ run' = [run EXCEPT ![r].pc = "except"]
    /\ UNCHANGED << uploads, users, storage, today, enqueued, uc, retryQ, awardQ,
                    cursor, sent, faults, ledgerLog, teams,
                    gemini_file_resource, remoteFiles,
                    summary_cache, profile_read, streak_job >>

\* lines 349-360 and 373: generate_content returns, the cursor is set and
\* the loop left, an empty text raising after the loop; or it raises
GenerateContent(r, resp) ==
    /\ run[r].pc = "generate"
    /\ \/ /\ cursor' = current_index(r)
          /\ IF resp = EmptyResponse
             THEN Raise(r, "All Gemini API keys failed.")
             ELSE run' = [run EXCEPT ![r].pc = "interpret", ![r].result = resp]
       \/ /\ run' = [run EXCEPT ![r].pc = "except"]
          /\ UNCHANGED cursor
    /\ UNCHANGED << uploads, users, storage, today, enqueued, uc, retryQ, awardQ,
                    sent, faults, ledgerLog, teams,
                    gemini_file_resource, remoteFiles,
                    summary_cache, profile_read, streak_job >>

\* lines 361-371: the except block of the loop
ExceptCleanup(r) ==
    /\ run[r].pc = "except"
    /\ IF gemini_file_resource[r] # NoFile
       THEN remoteFiles' = FilesDelete(remoteFiles, gemini_file_resource[r])
       ELSE UNCHANGED remoteFiles
    /\ gemini_file_resource' = [gemini_file_resource EXCEPT ![r] = NoFile]
    /\ IF run[r].i = NumKeys - 1
       THEN Raise(r, "credential failed")
       ELSE run' = [run EXCEPT ![r].pc = "attempt", ![r].i = @ + 1]
    /\ UNCHANGED << uploads, users, storage, today, enqueued, uc, retryQ, awardQ,
                    cursor, sent, faults, ledgerLog, teams,
                    summary_cache, profile_read, streak_job >>

(***************************************************************************)
(* Team aggregation under concurrent jobs: both uploads of u1 have been    *)
(* completed and enqueued; the active team challenge t1, derived from c2   *)
(* with bonus 100, has u1, u2 and u3 as accepted members and u4 invited.   *)
(* Executions are followed to the end of handle_team_challenge_progress;   *)
(* the dispatched award tasks stay in the queue.                           *)
(***************************************************************************)
TeamPool == { RProgress }

TeamExample ==
    [TeamOfC2 EXCEPT !.members =
        [u \in Users |-> IF u = "u4" THEN "pending" ELSE "accepted"]]

InitTeam ==
    /\ uploads = [j \in Jobs |-> [NewUpload EXCEPT !.status = "PENDING_ANALYSIS"]]
    /\ users = [u \in Users |->
                    [NewUser(NoUser) EXCEPT !.activeTeamChallenges =
                        IF TeamExample.members[u] = "accepted"
                        THEN << "t1" >> ELSE << >>]]
    /\ storage = [j \in Jobs |-> {"incoming"}]
    /\ run = [r \in Runs |-> IdleRun]
    /\ today = 0
    /\ enqueued = [j \in Jobs |-> TRUE]
    /\ uc = [j \in Jobs |-> [pc |-> "idle", calls |-> 1]]
    /\ retryQ = {}
    /\ awardQ = << >>
    /\ cursor = 0
    /\ sent = [j \in Jobs |-> "none"]
    /\ faults = MaxFaults
    /\ ledgerLog = << >>
    /\ \E n \in {0, 3} :
          teams = [t \in Teams |-> IF t = "t1"
                                   THEN [TeamExample EXCEPT !.currentProgress = n]
                                   ELSE NoTeam]
    /\ gemini_file_resource = [r \in Runs |-> NoFile]
    /\ remoteFiles = << >>
    /\ summary_cache = [u \in Users |-> NoSummary]
    /\ profile_read = NoProfileRead
    /\ streak_job = [pc |-> "idle", last |-> NoDate, batch |-> {}]

NextTeam ==
    \/ \E r \in Runs, j \in Jobs : Deliver(r, j)
    \/ \E r \in Runs : GuardRead(r)
    \/ \E r \in Runs : Claim(r)
    \/ \E r \in Runs : Prepare(r)
    \/ \E r \in Runs, resp \in TeamPool : InferSuccess(r, 0, resp)
    \/ \E r \in Runs : Interpret(r)
    \/ \E r \in Runs : TxnRead(r)
    \/ \E r \in Runs : TxnCommit(r)
    \/ \E r \in Runs : TxnAbort(r)
    \/ \E r \in Runs : Reindex(r)
    \/ \E r \in Runs : Referral(r)
    \/ \E r \in Runs : TeamAggregate(r)
    \/ \E r \in Runs : TeamTxnRead(r)
    \/ \E r \in Runs : TeamTxn(r)
    \/ \E r \in Runs : TeamTxnAbort(r)
    \/ \E r \in Runs : TeamPayout(r)

SpecTeam == InitTeam /\ [][NextTeam]_vars

\* C22: the payout of a completed team challenge with bonus B and k >= 1
\* accepted members dispatches exactly k award tasks, one for each accepted
\* member and none for any other, each of floor(B / k) points.
PayoutSplitsBonus ==
    [][\A r \in Runs :
          (run[r].pc = "team_pay" /\ run'[r].pc # "team_pay")
          => LET c == run[r].completed_challenge
                 acc == { u \in Users : c.members[u] = "accepted" }
                 k == Cardinality(acc)
                 new == { i \in DOMAIN awardQ' : i > Len(awardQ) }
             IN  k >= 1 =>
                 /\ Len(awardQ') = Len(awardQ) + k
                 /\ \A i \in DOMAIN awardQ : awardQ'[i] = awardQ[i]
                 /\ \A u \in acc :
                       Cardinality({ i \in new : awardQ'[i].user = u }) = 1
                 /\ \A i \in new :
                       /\ awardQ'[i].user \in acc
                       /\ awardQ'[i].amount * k <= c.bonusPoints
                       /\ c.bonusPoints < (awardQ'[i].amount + 1) * k]_vars

WitnessPayoutOfThree ==
    /\ teams["t1"].status = "completed"
    /\ teams["t1"].bonusPoints = 100
    /\ Len(awardQ) = 3
    /\ \A u \in {"u1", "u2", "u3"} :
          \E i \in DOMAIN awardQ : awardQ[i] = [user |-> u, amount |-> 33]
    /\ \A i \in DOMAIN awardQ : awardQ[i].user # "u4"
    /\ \E r \in Runs : run[r].pc = "notify" /\ run[r].completed_challenge.exists

\* C30: a team challenge that is completed never changes again, so it is
\* completed once and progress reported later has no effect; at most one
\* execution obtains the completed challenge, and the award tasks
\* dispatched are those of one payout.
TeamCompletesOnce ==
    [][\A t \in Teams :
          /\ teams[t].status = "completed" => teams'[t] = teams[t]
          /\ Cardinality({ r \in Runs :
                 /\ run'[r].completed_challenge.exists
                 /\ run'[r].active_team_ids[run'[r].team] = t }) <= 1
          /\ Len(awardQ') <= Cardinality({ tu \in Teams \X Users :
                 /\ teams'[tu[1]].status = "completed"
                 /\ teams'[tu[1]].members[tu[2]] = "accepted" })]_vars

WitnessLateProgress ==
    \E r, q \in Runs :
        /\ r # q
        /\ run[r].pc = "notify" /\ run[r].completed_challenge.exists
        /\ run[r].completed_challenge.currentProgress = 3
        /\ run[q].pc = "team_txn" /\ run[q].team = 2
        /\ run[q].active_team_ids = << "t1" >>
        /\ ~run[q].completed_challenge.exists
        /\ teams["t1"].status = "completed"
        /\ Len(awardQ) = 3
(***************************************************************************)
(* Team challenges made by the users: team_up_on_challenge and             *)
(* accept_invitation of api/gamification.py, with the jobs of u1.  Both    *)
(* uploads of u1 have been completed and enqueued and no team challenge    *)
(* exists; u1 teams up and invites u2.  No team challenge completes from   *)
(* this state, so the payout is not part of the next-state relation.       *)
(***************************************************************************)
\* challenge_generator.py: progress challenges are eligible for teams
isTeamUpEligible(challenge) == challenge.progressGoal # NoGoal

\* firestore.ArrayUnion([x])
ArrayUnion(seq, x) == IF x \in SeqToSet(seq) THEN seq ELSE Append(seq, x)

\* team_up_on_challenge, api/gamification.py lines 245-287; the document id
\* is a fresh uuid
TeamUp(host, cid, invitees, team_id) ==
    /\ cid \in ChallengeIds
    /\ isTeamUpEligible(challenge_map(cid))
    /\ ~teams[team_id].exists
    /\ \A u \in invitees \cup {host} : users[u].exists
    /\ teams' = [teams EXCEPT ![team_id] =
          [exists |-> TRUE, version |-> 0, status |-> "pending",
           originalChallengeId |-> cid, currentProgress |-> 0,
           progressGoal |-> challenge_map(cid).progressGoal,
           bonusPoints |-> challenge_map(cid).bonusPoints,
           members |-> [u \in Users |-> IF u = host THEN "accepted"
                                        ELSE IF u \in invitees THEN "pending"
                                        ELSE "none"]]]
    /\ users' = [u \in Users |->
          IF u = host
          THEN [users[u] EXCEPT !.activeTeamChallenges = ArrayUnion(@, team_id),
                                !.version = @ + 1]
          ELSE IF u \in invitees
          THEN [users[u] EXCEPT !.version = @ + 1]
          ELSE users[u]]
    /\ UNCHANGED << uploads, storage, run, today, enqueued, uc, retryQ, awardQ,
                    cursor, sent, faults, ledgerLog,
                    gemini_file_resource, remoteFiles,
                    summary_cache, profile_read, streak_job >>

\* accept_invitation, api/gamification.py lines 289-318: one transaction on
\* the team document and the user's document
AcceptInvitation(user_id, team_id) ==
    /\ teams[team_id].exists
    /\ teams[team_id].members[user_id] = "pending"
    /\ users[user_id].exists
    /\ teams' = [teams EXCEPT ![team_id].members[user_id] = "accepted",
                              ![team_id].version = @ + 1]
    /\ users' = [users EXCEPT
          ![user_id].activeTeamChallenges = ArrayUnion(@, team_id),
          ![user_id].version = @ + 1]
    /\ UNCHANGED << uploads, storage, run, today, enqueued, uc, retryQ, awardQ,
                    cursor, sent, faults, ledgerLog,
                    gemini_file_resource, remoteFiles,
                    summary_cache, profile_read, streak_job >>

NextTeamUp ==
    \/ \E team_id \in Teams : TeamUp("u1", "c2", {"u2"}, team_id)
    \/ \E team_id \in Teams : AcceptInvitation("u2", team_id)
    \/ \E r \in Runs, j \in Jobs : Deliver(r, j)
    \/ \E r \in Runs : GuardRead(r)
    \/ \E r \in Runs : Claim(r)
    \/ \E r \in Runs : Prepare(r)
    \/ \E r \in Runs, resp \in TeamPool : InferSuccess(r, 0, resp)
    \/ \E r \in Runs : Interpret(r)
    \/ \E r \in Runs : TxnRead(r)
    \/ \E r \in Runs : TxnCommit(r)
    \/ \E r \in Runs : TxnAbort(r)
    \/ \E r \in Runs : Reindex(r)
    \/ \E r \in Runs : Referral(r)
    \/ \E r \in Runs : TeamAggregate(r)
    \/ \E r \in Runs : TeamTxnRead(r)
    \/ \E r \in Runs : TeamTxn(r)
    \/ \E r \in Runs : TeamTxnAbort(r)

SpecTeamUp == InitLedger /\ [][NextTeamUp]_vars

\* C23: the transaction on a team challenge of the owner's active list whose
\* originalChallengeId matches a progress update of the job, the team
\* challenge having been accepted by everyone invited and not being
\* completed, adds the reported increment to currentProgress and marks the
\* team challenge completed when the goal is reached.
TeamProgressApplied ==
    [][\A r \in Runs :
          (run[r].pc = "team_commit" /\ run'[r].pc \in {"team_txn", "team_pay"})
          => LET t == run[r].active_team_ids[run[r].team]
                 map == progress_updates_map(run[r].result.challengeUpdates)
             IN  (/\ teams[t].exists
                  /\ teams[t].status # "completed"
                  /\ \A u \in Users : teams[t].members[u] # "pending"
                  /\ teams[t].originalChallengeId \in DOMAIN map)
                 => /\ teams'[t].currentProgress =
                          teams[t].currentProgress + map[teams[t].originalChallengeId]
                    /\ teams'[t].currentProgress >= teams[t].progressGoal
                          => teams'[t].status = "completed"]_vars
(***************************************************************************)
(* One whole execution: the message of j1 has been delivered to execution  *)
(* 1, which is about to read the upload document.  Its owner u1 is an      *)
(* accepted member of the active team challenge t1; as many awards to u1   *)
(* as a transaction has attempts are waiting in the award queue, so that   *)
(* the ledger transaction can lose every attempt.  The provider may fail   *)
(* at each call, and so may the other services.                            *)
(***************************************************************************)
RunPool == { RScore, RProgress, RError, RLow, RLowHigh, Garbage, EmptyResponse }

InitRun ==
    /\ uploads = [j \in Jobs |-> IF j = "j1"
                                 THEN [NewUpload EXCEPT !.status = "PENDING_ANALYSIS"]
                                 ELSE MissingUpload]
    /\ users = [u \in Users |->
                    [NewUser(IF u = "u1" THEN "u2" ELSE NoUser)
                        EXCEPT !.activeTeamChallenges =
                            IF TeamExample.members[u] = "accepted"
                            THEN << "t1" >> ELSE << >>]]
    /\ storage = [j \in Jobs |-> {"incoming"}]
    /\ run = [r \in Runs |-> IF r = 1
                             THEN [IdleRun EXCEPT !.pc = "guard", !.job = "j1"]
                             ELSE IdleRun]
    /\ today = 0
    /\ enqueued = [j \in Jobs |-> FALSE]
    /\ uc = [j \in Jobs |-> [pc |-> "idle", calls |-> IF j = "j1" THEN 1 ELSE 0]]
    /\ retryQ = {}
    /\ awardQ = [k \in 1..MaxTxnAttempts |-> [user |-> "u1", amount |-> ReferralBonus]]
    /\ cursor = 0
    /\ sent = [j \in Jobs |-> "none"]
    /\ faults = 0
    /\ ledgerLog = << >>
    /\ teams = [t \in Teams |-> IF t = "t1" THEN TeamExample ELSE NoTeam]
    /\ gemini_file_resource = [r \in Runs |-> NoFile]
    /\ remoteFiles = << >>
    /\ summary_cache = [u \in Users |-> NoSummary]
    /\ profile_read = NoProfileRead
    /\ streak_job = [pc |-> "idle", last |-> NoDate, batch |-> {}]

NextRun ==
    \/ \E r \in Runs : GuardRead(r)
    \/ \E r \in Runs : Claim(r)
    \/ \E r \in Runs : Prepare(r)
    \/ \E r \in Runs : ReadCursor(r)
    \/ \E r \in Runs : FilesUpload(r)
    \/ \E r \in Runs : PollFile(r)
    \/ \E r \in Runs, resp \in RunPool : GenerateContent(r, resp)
    \/ \E r \in Runs : ExceptCleanup(r)
    \/ \E r \in Runs : Interpret(r)
    \/ \E r \in Runs : TxnRead(r)
    \/ \E r \in Runs : TxnCommit(r)
    \/ \E r \in Runs : TxnAbort(r)
    \/ \E r \in Runs : Reindex(r)
    \/ \E r \in Runs : Referral(r)
    \/ \E r \in Runs : TeamAggregate(r)
    \/ \E r \in Runs : TeamTxnRead(r)
    \/ \E r \in Runs : TeamTxn(r)
    \/ \E r \in Runs : TeamPayout(r)
    \/ \E r \in Runs : Notify(r)
    \/ \E r \in Runs : CopyProcessed(r)
    \/ \E r \in Runs : DeleteSource(r)
    \/ \E r \in Runs : HandlerFail(r)
    \/ \E r \in Runs : HandlerNotify(r)
    \/ \E r \in Runs : HandlerCopy(r)
    \/ \E r \in Runs : HandlerDelete(r)
    \/ \E r \in Runs : Retry(r)
    \/ \E r \in Runs : Finally(r)
    \/ \E i \in DOMAIN awardQ : AwardBonus(i)

SpecRun == InitRun /\ [][NextRun]_vars

\* C21: a remote file whose deletion has not been requested is the one its
\* execution still holds; the file of a credential that failed has its
\* deletion requested before the next credential is tried, and when an
\* execution has ended the deletion of every file it created has been
\* requested, whatever its outcome.
RemoteFilesDeleted ==
    \A id \in DOMAIN remoteFiles :
        LET r == id[1] IN
        /\ ~remoteFiles[id] => gemini_file_resource[r] = id
        /\ (run[r].pc = "attempt" \/ run[r].pc = "done") => remoteFiles[id]

WitnessRemoteFilesDeleted ==
    \E r \in Runs :
        /\ run[r].pc = "done" /\ run[r].outcome = "retry"
        /\ DOMAIN remoteFiles = { << r, 0 >>, << r, 1 >> }
        /\ uploads["j1"].errorMessage = "transaction aborted"

\* the phase of the pipeline a position of the execution belongs to
Phase(pc) ==
    CASE pc \in {"guard", "claim"} -> 1
      [] pc \in {"prep", "infer", "attempt", "poll", "generate", "except"} -> 2
      [] pc = "interpret" -> 3
      [] pc \in {"txn_read", "txn_commit"} -> 4
      [] pc \in {"reindex", "referral"} -> 5
      [] pc \in {"team", "team_txn", "team_commit", "team_pay"} -> 6
      [] pc = "notify" -> 7
      [] pc \in {"copy", "delete"} -> 8
      [] OTHER -> 9

\* C24: an execution moves through claim, inference, interpretation, ledger
\* commit, team aggregation, notification and storage move in this order
\* and never back; the referral award and the team aggregation start only
\* when the ledger transaction of the execution has committed, and the
\* team aggregation is entered once, from the referral step.
PhasesInOrder ==
    [][\A r \in Runs :
          (run[r].pc # "idle" /\ run'[r].pc # run[r].pc)
          => /\ Phase(run'[r].pc) >= Phase(run[r].pc)
             /\ run'[r].pc \in {"referral", "team"}
                   => \E i \in DOMAIN ledgerLog' : ledgerLog'[i].run = r
             /\ run'[r].pc = "team" => run[r].pc = "referral"
             /\ run'[r].pc = "referral" => run[r].pc = "reindex"
             /\ run[r].pc = "team" => run'[r].pc \notin {"reindex", "referral"}]_vars

WitnessAllPhases ==
    \E r \in Runs :
        /\ run[r].pc = "finally" /\ run[r].outcome = "success"
        /\ \E i \in DOMAIN ledgerLog : ledgerLog[i].run = r
        /\ run[r].completed_challenge.exists
        /\ teams["t1"].status = "completed"
        /\ sent["j1"] = "COMPLETED"
        /\ storage["j1"] = {"processed"}
(***************************************************************************)
(* The referral reward under concurrent jobs: both uploads of u1, who was  *)
(* referred by u2, have been completed and enqueued; executions are        *)
(* followed up to the dispatch of the reward, which stays in the queue.    *)
(***************************************************************************)
NextReferral ==
    \/ \E r \in Runs, j \in Jobs : Deliver(r, j)
    \/ \E r \in Runs : GuardRead(r)
    \/ \E r \in Runs : Claim(r)
    \/ \E r \in Runs : Prepare(r)
    \/ \E r \in Runs, resp \in StreakPool : InferSuccess(r, 0, resp)
    \/ \E r \in Runs : Interpret(r)
    \/ \E r \in Runs : TxnRead(r)
    \/ \E r \in Runs : TxnCommit(r)
    \/ \E r \in Runs : TxnAbort(r)
    \/ \E r \in Runs : Reindex(r)
    \/ \E r \in Runs : Referral(r)

SpecReferral == InitLedger /\ [][NextReferral]_vars

\* C25: an award task is dispatched only by the referral step of an
\* execution whose ledger transaction has committed, having read the
\* first-upload flag unset and a referrer, and is an award of 50 points to
\* that referrer; over all the jobs of the referred user at most one is
\* dispatched.
ReferralOnce ==
    [][/\ awardQ' # awardQ
          => \E r \in Runs, i \in DOMAIN ledgerLog :
                /\ run[r].pc = "referral"
                /\ ledgerLog[i].run = r
                /\ ~ledgerLog[i].before.hasCompletedFirstUpload
                /\ ledgerLog[i].before.referredBy # NoUser
                /\ awardQ' = Append(awardQ,
                      [user |-> ledgerLog[i].before.referredBy,
                       amount |-> ReferralBonus])
       /\ Len(awardQ') <= 1]_vars

WitnessReferralOnce ==
    /\ Len(ledgerLog) = 2
    /\ ledgerLog[1].job # ledgerLog[2].job
    /\ \A i \in DOMAIN ledgerLog : run[ledgerLog[i].run].pc = "team"
    /\ run[ledgerLog[2].run].attempts = 2
    /\ awardQ = << [user |-> "u2", amount |-> ReferralBonus] >>
(***************************************************************************)
(* The storage move under redelivery and failing services: upload          *)
(* completion of j1 has been requested once and its message is in the      *)
(* queue; the provider answers with an error result or an unparsable text, *)
(* so that executions go straight to the notification or to the handler.   *)
(***************************************************************************)
StoragePool == { RError, Garbage }

InitStorage ==
    /\ uploads = [j \in Jobs |-> IF j = "j1"
                                 THEN [NewUpload EXCEPT !.status = "PENDING_ANALYSIS"]
                                 ELSE MissingUpload]
    /\ users = [u \in Users |-> NewUser(NoUser)]
    /\ storage = [j \in Jobs |-> {"incoming"}]
    /\ run = [r \in Runs |-> IdleRun]
    /\ today = 0
    /\ enqueued = [j \in Jobs |-> j = "j1"]
    /\ uc = [j \in Jobs |-> [pc |-> "idle", calls |-> IF j = "j1" THEN 1 ELSE 0]]
    /\ retryQ = {}
    /\ awardQ = << >>
    /\ cursor = 0
    /\ sent = [j \in Jobs |-> "none"]
    /\ faults = 0
    /\ ledgerLog = << >>
    /\ teams = [t \in Teams |-> NoTeam]
    /\ gemini_file_resource = [r \in Runs |-> NoFile]
    /\ remoteFiles = << >>
    /\ summary_cache = [u \in Users |-> NoSummary]
    /\ profile_read = NoProfileRead
    /\ streak_job = [pc |-> "idle", last |-> NoDate, batch |-> {}]

NextStorage ==
    \/ \E r \in Runs, j \in Jobs : Deliver(r, j)
    \/ \E r \in Runs, m \in retryQ : DeliverRetry(r, m)
    \/ \E r \in Runs : GuardRead(r)
    \/ \E r \in Runs : Claim(r)
    \/ \E r \in Runs : Prepare(r)
    \/ \E r \in Runs, resp \in StoragePool : InferSuccess(r, 0, resp)
    \/ \E r \in Runs : Interpret(r)
    \/ \E r \in Runs : Notify(r)
    \/ \E r \in Runs : CopyProcessed(r)
    \/ \E r \in Runs : DeleteSource(r)
    \/ \E r \in Runs : HandlerFail(r)
    \/ \E r \in Runs : HandlerNotify(r)
    \/ \E r \in Runs : HandlerCopy(r)
    \/ \E r \in Runs : HandlerDelete(r)
    \/ \E r \in Runs : Retry(r)
    \/ \E r \in Runs : Finally(r)

SpecStorage == InitStorage /\ [][NextStorage]_vars

\* C26: the media of a job exists under at least one of incoming/,
\* processed/ and failed/ at every moment; the source is removed only by
\* the delete step of an execution, on the success path with the copy
\* under processed/ present and in the handler with the copy under failed/
\* present.
SourceDeletedAfterCopy ==
    [][\A j \in Jobs :
          storage'[j] # storage[j]
          => /\ storage'[j] # {}
             /\ ("incoming" \in storage[j] /\ "incoming" \notin storage'[j])
                => \E r \in Runs :
                      /\ run[r].job = j
                      /\ \/ run[r].pc = "delete" /\ "processed" \in storage[j]
                         \/ run[r].pc = "h_delete" /\ "failed" \in storage[j]]_vars

WitnessFailedCopyKeepsSource ==
    \E r \in Runs :
        /\ run[r].pc = "h_retry" /\ run[r].exc = ParseError
        /\ faults = 1
        /\ sent["j1"] = "FAILED"
        /\ storage["j1"] = {"incoming"}

\* C27: the notification step, whether the message was sent or the send
\* failed, leaves the upload documents and the retry queue unchanged and
\* is followed by the copy of the storage move, on the success path and in
\* the handler.
NotificationFailureSwallowed ==
    [][\A r \in Runs :
          (run[r].pc \in {"notify", "h_notify"} /\ run'[r].pc # run[r].pc)
          => /\ uploads' = uploads
             /\ retryQ' = retryQ
             /\ storage' = storage
             /\ run'[r].pc = IF run[r].pc = "notify" THEN "copy" ELSE "h_copy"]_vars

WitnessUnsentSuccess ==
    \E r \in Runs :
        /\ run[r].pc = "finally" /\ run[r].outcome = "success"
        /\ faults = 1
        /\ sent["j1"] = "none"
        /\ uploads["j1"].status = "COMPLETED"
        /\ storage["j1"] = {"processed"}
        /\ retryQ = {}

\* C28: a failure of the search reindex after the ledger commit leaves the
\* job COMPLETED, lets the execution go on to the referral step and
\* schedules no retry.
ReindexFailureIgnored ==
    \A r \in Runs :
        run[r].exc = "reindex failed"
        => /\ uploads[run[r].job].status = "COMPLETED"
           /\ run[r].pc \notin {"h_notify", "h_copy", "h_delete", "h_retry"}
           /\ retryQ = {}

\* C29: an execution that passed the status check and has reached its end
\* leaves the job COMPLETED or FAILED, whatever the interpretation of the
\* response was.
RunEndsTerminal ==
    \A r \in Runs :
        (run[r].pc = "finally" /\ run[r].outcome # "aborted")
        => uploads[run[r].job].status \in Terminal
(***************************************************************************)
(* One aggregation pass over several team challenges: upload completion   *)
(* of j1 has been requested once and its message, which may be delivered   *)
(* more than once, is in the queue; its owner u1 is an accepted member of  *)
(* the active team challenges t1 and t2, both derived from c2 (goal 5),    *)
(* each with a progress of 0 or 3, and every response reports +3 for c2.   *)
(* Executions are followed to the end of handle_team_challenge_progress;   *)
(* the dispatched award tasks stay in the queue.                           *)
(***************************************************************************)
InitPass ==
    /\ uploads = [j \in Jobs |-> IF j = "j1"
                                 THEN [NewUpload EXCEPT !.status = "PENDING_ANALYSIS"]
                                 ELSE MissingUpload]
    /\ users = [u \in Users |->
                    [NewUser(NoUser) EXCEPT !.activeTeamChallenges =
                        IF TeamExample.members[u] = "accepted"
                        THEN << "t1", "t2" >> ELSE << >>]]
    /\ storage = [j \in Jobs |-> {"incoming"}]
    /\ run = [r \in Runs |-> IdleRun]
    /\ today = 0
    /\ enqueued = [j \in Jobs |-> j = "j1"]
    /\ uc = [j \in Jobs |-> [pc |-> "idle", calls |-> IF j = "j1" THEN 1 ELSE 0]]
    /\ retryQ = {}
    /\ awardQ = << >>
    /\ cursor = 0
    /\ sent = [j \in Jobs |-> "none"]
    /\ faults = MaxFaults
    /\ ledgerLog = << >>
    /\ \E n1, n2 \in {0, 3} :
          teams = [t \in Teams |->
                      [TeamExample EXCEPT !.currentProgress =
                          IF t = "t1" THEN n1 ELSE n2]]
    /\ gemini_file_resource = [r \in Runs |-> NoFile]
    /\ remoteFiles = << >>
    /\ summary_cache = [u \in Users |-> NoSummary]
    /\ profile_read = NoProfileRead
    /\ streak_job = [pc |-> "idle", last |-> NoDate, batch |-> {}]

SpecPass == InitPass /\ [][NextTeam]_vars

\* C31: once an execution has obtained a completed team challenge it pays
\* that one out and leaves the loop: it changes no team challenge again and
\* reads none, and it dispatches awards only in that one payout.  A team
\* challenge of the list that matched without reaching its goal has the
\* increment added, stays active, and no later step takes progress away.
PassStopsAtFirstCompletion ==
    [][\A r \in Runs :
          /\ (run[r].completed_challenge.exists /\ run'[r] # run[r])
             => /\ teams' = teams
                /\ run'[r].pc \notin {"team_txn", "team_commit", "team_pay"}
                /\ run[r].pc # "team_pay" => awardQ' = awardQ
          /\ (/\ run[r].pc = "team_commit" /\ run'[r].pc = "team_txn"
              /\ run'[r].team = run[r].team + 1)
             => LET t == run[r].active_team_ids[run[r].team]
                    map == progress_updates_map(run[r].result.challengeUpdates)
                IN  (teams[t].status = "active"
                       /\ teams[t].originalChallengeId \in DOMAIN map)
                    => /\ teams'[t].currentProgress =
                             teams[t].currentProgress
                                + map[teams[t].originalChallengeId]
                       /\ teams'[t].status = "active"
          /\ \A t \in Teams : teams'[t].currentProgress >= teams[t].currentProgress]_vars

WitnessLaterTeamUntouched ==
    \E r \in Runs :
        /\ run[r].pc = "notify" /\ run[r].completed_challenge.exists
        /\ run[r].active_team_ids = << "t1", "t2" >> /\ run[r].team = 1
        /\ teams["t1"].status = "completed"
        /\ teams["t2"].status = "active" /\ teams["t2"].currentProgress = 3
        /\ Len(awardQ) = 3
(***************************************************************************)
(* reset_inactive_streaks, tasks/streak_updater.py lines 29-90, run once a *)
(* day by cron.                                                            *)
(***************************************************************************)
\* lines 48-52: users with currentStreak > 0 whose lastStreakTimestamp is
\* before the start of today (WIB); a document without the field does not
\* match the inequality
inactive_streaks(start_of_today_wib) ==
    { u \in Users : /\ users[u].exists
                    /\ users[u].currentStreak > 0
                    /\ users[u].lastStreakDate # NoDate
                    /\ users[u].lastStreakDate < start_of_today_wib }

\* lines 37-68: the job starts, at most once on a day; the query is
\* streamed, each matching user is added to the batch and its cache entry
\* invalidated
ResetQuery ==
    /\ streak_job.pc = "idle"
    /\ streak_job.last < today
    /\ LET matched == inactive_streaks(today) IN
       /\ streak_job' = [pc |-> IF matched = {} THEN "idle" ELSE "commit",
                         last |-> today, batch |-> matched]
       /\ summary_cache' = [u \in Users |->
                               IF u \in matched THEN NoSummary ELSE summary_cache[u]]
    /\ UNCHANGED << uploads, users, storage, run, today, enqueued, uc, retryQ,
                    awardQ, cursor, sent, faults, ledgerLog, teams,
                    gemini_file_resource, remoteFiles, profile_read >>

\* lines 63 and 77-79: batch.commit() of the updates {'currentStreak': 0}
ResetCommit ==
    /\ streak_job.pc = "commit"
    /\ users' = [u \in Users |->
                    IF u \in streak_job.batch
                    THEN [users[u] EXCEPT !.currentStreak = 0, !.version = @ + 1]
                    ELSE users[u]]
    /\ streak_job' = [streak_job EXCEPT !.pc = "idle", !.batch = {}]
    /\ UNCHANGED << uploads, storage, run, today, enqueued, uc, retryQ,
                    awardQ, cursor, sent, faults, ledgerLog, teams,
                    gemini_file_resource, remoteFiles, summary_cache,
                    profile_read >>

(***************************************************************************)
(* The streak over consecutive days: both uploads of the new user u1 have  *)
(* been completed and enqueued; the calendar advances, the reset job runs  *)
(* at most once a day, and executions are followed up to the commit of the *)
(* ledger transaction.                                                     *)
(***************************************************************************)
NextDaily ==
    \/ Tick
    \/ ResetQuery
    \/ ResetCommit
    \/ \E r \in Runs, j \in Jobs : Deliver(r, j)
    \/ \E r \in Runs : GuardRead(r)
    \/ \E r \in Runs : Claim(r)
    \/ \E r \in Runs : Prepare(r)
    \/ \E r \in Runs, resp \in StreakPool : InferSuccess(r, 0, resp)
    \/ \E r \in Runs : Interpret(r)
    \/ \E r \in Runs : TxnRead(r)
    \/ \E r \in Runs : TxnCommit(r)
    \/ \E r \in Runs : TxnAbort(r)

SpecDaily == InitLedger /\ [][NextDaily]_vars

\* C32: for a new user whose ledger transactions committed on each of the
\* days 0..d, the first commit of day d leaves currentStreak = d + 1,
\* whatever the reset job did in between.  Stated for transactions whose
\* WIB date, taken before the transaction, is the day of their commit.
StreakCountsDays ==
    \A i \in DOMAIN ledgerLog :
        LET d == ledgerLog[i].now IN
        (/\ \A k \in 1..(i - 1) : ledgerLog[k].now # d
         /\ \A e \in 0..d : \E k \in 1..i : ledgerLog[k].now = e
         /\ \A k \in 1..i : ledgerLog[k].today = ledgerLog[k].now)
        => ledgerLog[i].after.currentStreak = d + 1

\* C33: when an execution that passed the status check has reached its end,
\* the media of its job is under processed/ only if the job is COMPLETED
\* and under failed/ only if the job is FAILED.
MediaAgreesWithStatus ==
    \A r \in Runs :
        (run[r].pc = "finally" /\ run[r].outcome # "aborted")
        => /\ "processed" \in storage[run[r].job]
                 => uploads[run[r].job].status = "COMPLETED"
           /\ "failed" \in storage[run[r].job]
                 => uploads[run[r].job].status = "FAILED"
(***************************************************************************)
(* get_user_profiles_from_ids, api/users.py lines 24-86, called for one    *)
(* user id: a summary found in the cache is returned; one that is missing  *)
(* is built from the user document and written to the cache for 300 s.     *)
(***************************************************************************)
\* lines 35-46: redis_client.mget finds no entry for the user
ProfileLookup(u) ==
    /\ profile_read.pc = "idle"
    /\ ~summary_cache[u].cached
    /\ profile_read' = [NoProfileRead EXCEPT !.pc = "miss", !.user = u]
    /\ UNCHANGED << uploads, users, storage, run, today, enqueued, uc, retryQ,
                    awardQ, cursor, sent, faults, ledgerLog, teams,
                    gemini_file_resource, remoteFiles, summary_cache,
                    streak_job >>

\* lines 51-76: db.get_all reads the document and the entry is built
ProfileFetch ==
    /\ profile_read.pc = "miss"
    /\ LET user == users[profile_read.user] IN
       IF user.exists
       THEN profile_read' = [profile_read EXCEPT
                !.pc = "fetched",
                !.entry = [cached |-> TRUE, totalPoints |-> user.totalPoints,
                           currentStreak |-> user.currentStreak]]
       ELSE profile_read' = NoProfileRead
    /\ UNCHANGED << uploads, users, storage, run, today, enqueued, uc, retryQ,
                    awardQ, cursor, sent, faults, ledgerLog, teams,
                    gemini_file_resource, remoteFiles, summary_cache,
                    streak_job >>

\* lines 78-79: pipe.execute() writes the entry
ProfileStore ==
    /\ profile_read.pc = "fetched"
    /\ summary_cache' = [summary_cache EXCEPT ![profile_read.user] = profile_read.entry]
    /\ profile_read' = NoProfileRead
    /\ UNCHANGED << uploads, users, storage, run, today, enqueued, uc, retryQ,
                    awardQ, cursor, sent, faults, ledgerLog, teams,
                    gemini_file_resource, remoteFiles, streak_job >>

\* line 76, ex=300: the entry expires
CacheExpire(u) ==
    /\ summary_cache[u].cached
    /\ summary_cache' = [summary_cache EXCEPT ![u] = NoSummary]
    /\ UNCHANGED << uploads, users, storage, run, today, enqueued, uc, retryQ,
                    awardQ, cursor, sent, faults, ledgerLog, teams,
                    gemini_file_resource, remoteFiles, profile_read,
                    streak_job >>

(***************************************************************************)
(* The summary cache under concurrent profile reads: both uploads of u1    *)
(* have been completed and enqueued, the cache is empty, and the profile   *)
(* of u1 is read while executions are followed up to the commit of the     *)
(* ledger transaction.                                                     *)
(***************************************************************************)
NextCache ==
    \/ ProfileLookup("u1")
    \/ ProfileFetch
    \/ ProfileStore
    \/ CacheExpire("u1")
    \/ \E r \in Runs, j \in Jobs : Deliver(r, j)
    \/ \E r \in Runs : GuardRead(r)
    \/ \E r \in Runs : Claim(r)
    \/ \E r \in Runs : Prepare(r)
    \/ \E r \in Runs, resp \in StreakPool : InferSuccess(r, 0, resp)
    \/ \E r \in Runs : Interpret(r)
    \/ \E r \in Runs : TxnRead(r)
    \/ \E r \in Runs : TxnCommit(r)
    \/ \E r \in Runs : TxnAbort(r)

SpecCache == InitLedger /\ [][NextCache]_vars

\* C34: once a ledger transaction of a user has committed, the cache holds
\* no entry for that user with the totalPoints or the currentStreak the
\* transaction replaced.
CacheFreshAfterCommit ==
    \A i \in DOMAIN ledgerLog :
        LET e == ledgerLog[i]
            entry == summary_cache[JobOwner[e.job]]
        IN  entry.cached
            => /\ e.after.totalPoints # e.before.totalPoints
                     => entry.totalPoints # e.before.totalPoints
               /\ e.after.currentStreak # e.before.currentStreak
                     => entry.currentStreak # e.before.currentStreak
(***************************************************************************)
(* The activity timestamp over one whole execution: the message of j1 has  *)
(* been delivered to execution 1, which is about to read the upload        *)
(* document; the job is waiting for analysis, or the delivery is a         *)
(* duplicate and the job is being processed or completed.  Its owner u1    *)
(* is new or had the last ledger commit on a day up to today; awards to    *)
(* u1 are waiting in the award queue, the calendar advances and the        *)
(* services may fail.                                                      *)
(***************************************************************************)
StampPool == { RZero, RScore, RError, RLow, Garbage }

InitStamp ==
    /\ \E status \in {"PENDING_ANALYSIS", "PROCESSING_AI", "COMPLETED"} :
          /\ uploads = [j \in Jobs |-> IF j = "j1"
                                       THEN [NewUpload EXCEPT !.status = status]
                                       ELSE MissingUpload]
          /\ storage = [j \in Jobs |-> IF j = "j1" /\ status = "COMPLETED"
                                       THEN {"processed"} ELSE {"incoming"}]
    /\ today \in 0..MaxDay
    /\ \E d \in {NoDate} \cup 0..today, c \in 1..2 :
          users = [u \in Users |->
                      IF u # "u1" THEN NewUser(NoUser)
                      ELSE IF d = NoDate THEN NewUser("u2")
                      ELSE UserWithStreak(d, c)]
    /\ run = [r \in Runs |-> IF r = 1
                             THEN [IdleRun EXCEPT !.pc = "guard", !.job = "j1"]
                             ELSE IdleRun]
    /\ enqueued = [j \in Jobs |-> FALSE]
    /\ uc = [j \in Jobs |-> [pc |-> "idle", calls |-> IF j = "j1" THEN 1 ELSE 0]]
    /\ retryQ = {}
    /\ awardQ = [k \in 1..MaxTxnAttempts |-> [user |-> "u1", amount |-> ReferralBonus]]
    /\ cursor = 0
    /\ sent = [j \in Jobs |-> "none"]
    /\ faults = 0
    /\ ledgerLog = << >>
    /\ teams = [t \in Teams |-> NoTeam]
    /\ gemini_file_resource = [r \in Runs |-> NoFile]
    /\ remoteFiles = << >>
    /\ summary_cache = [u \in Users |-> NoSummary]
    /\ profile_read = NoProfileRead
    /\ streak_job = [pc |-> "idle", last |-> NoDate, batch |-> {}]

NextStamp ==
    \/ Tick
    \/ \E r \in Runs : GuardRead(r)
    \/ \E r \in Runs : Claim(r)
    \/ \E r \in Runs : Prepare(r)
    \/ \E r \in Runs, resp \in StampPool : InferSuccess(r, 0, resp)
    \/ \E r \in Runs : InferAllFail(r)
    \/ \E r \in Runs : Interpret(r)
    \/ \E r \in Runs : TxnRead(r)
    \/ \E r \in Runs : TxnCommit(r)
    \/ \E r \in Runs : TxnAbort(r)
    \/ \E r \in Runs : Reindex(r)
    \/ \E r \in Runs : Referral(r)
    \/ \E r \in Runs : TeamAggregate(r)
    \/ \E r \in Runs : Notify(r)
    \/ \E r \in Runs : CopyProcessed(r)
    \/ \E r \in Runs : DeleteSource(r)
    \/ \E r \in Runs : HandlerFail(r)
    \/ \E r \in Runs : HandlerNotify(r)
    \/ \E r \in Runs : HandlerCopy(r)
    \/ \E r \in Runs : HandlerDelete(r)
    \/ \E r \in Runs : Retry(r)
    \/ \E r \in Runs : Finally(r)
    \/ \E i \in DOMAIN awardQ : AwardBonus(i)

SpecStamp == InitStamp /\ [][NextStamp]_vars

\* the step is the commit of the ledger transaction of execution r for an
\* existing user
CommitStep(r) ==
    /\ run[r].pc = "txn_commit" /\ run'[r].pc = "reindex"
    /\ run[r].snap.exists

\* C35: the commit of a ledger transaction for an existing user sets the
\* date of lastStreakTimestamp to the day of the commit, whatever the score
\* and the challenge updates; no other step of an execution and no award
\* changes the lastStreakTimestamp of any user.
StampOnEveryCommit ==
    [][/\ \A r \in Runs :
             CommitStep(r)
             => /\ users'[JobOwner[run[r].job]].lastStreakDate = today
                /\ Len(ledgerLog') = Len(ledgerLog) + 1
                /\ \A u \in Users \ {JobOwner[run[r].job]} :
                      users'[u].lastStreakDate = users[u].lastStreakDate
       /\ (\A r \in Runs : ~CommitStep(r))
             => /\ \A u \in Users : users'[u].lastStreakDate = users[u].lastStreakDate
                /\ ledgerLog' = ledgerLog]_vars

WitnessZeroScoreStamped ==
    \E r \in Runs :
        /\ run[r].pc = "finally" /\ run[r].outcome = "success"
        /\ Len(ledgerLog) = 1
        /\ ledgerLog[1].result = RZero
        /\ ledgerLog[1].before.lastStreakDate = 0
        /\ ledgerLog[1].after.lastStreakDate = 1
        /\ ledgerLog[1].after.totalPoints = ledgerLog[1].before.totalPoints
        /\ ledgerLog[1].after.completedChallengeIds
              = ledgerLog[1].before.completedChallengeIds
        /\ users["u1"].lastStreakDate = 1
(***************************************************************************)
(* The interpretation of the scores over the responses the provider can    *)
(* return: the message of j1 has been delivered to execution 1, which is   *)
(* about to read the upload document; its owner u1 is an accepted member   *)
(* of the active team challenge t1.  The response parses to a result       *)
(* without error field with any component scores, penalty and final score  *)
(* within the bounds, and a progress update of 3 for c2.  The execution is *)
(* followed to the end of handle_team_challenge_progress.                  *)
(***************************************************************************)
ScorePool ==
    { MkResult(b, e, c, p, f, FALSE, << ProgressUpdate("c2", 3) >>) :
        b \in 0..MaxScore, e \in 0..MaxScore, c \in 0..MaxScore,
        p \in 0..MaxPenalty, f \in 0..(3 * MaxScore) }

InitScores ==
    /\ uploads = [j \in Jobs |-> IF j = "j1"
                                 THEN [NewUpload EXCEPT !.status = "PENDING_ANALYSIS"]
                                 ELSE MissingUpload]
    /\ users = [u \in Users |->
                    [NewUser(NoUser) EXCEPT !.activeTeamChallenges =
                        IF TeamExample.members[u] = "accepted"
                        THEN << "t1" >> ELSE << >>]]
    /\ storage = [j \in Jobs |-> {"incoming"}]
    /\ run = [r \in Runs |-> IF r = 1
                             THEN [IdleRun EXCEPT !.pc = "guard", !.job = "j1"]
                             ELSE IdleRun]
    /\ today = 0
    /\ enqueued = [j \in Jobs |-> FALSE]
    /\ uc = [j \in Jobs |-> [pc |-> "idle", calls |-> IF j = "j1" THEN 1 ELSE 0]]
    /\ retryQ = {}
    /\ awardQ = << >>
    /\ cursor = 0
    /\ sent = [j \in Jobs |-> "none"]
    /\ faults = MaxFaults
    /\ ledgerLog = << >>
    /\ teams = [t \in Teams |-> IF t = "t1" THEN TeamExample ELSE NoTeam]
    /\ gemini_file_resource = [r \in Runs |-> NoFile]
    /\ remoteFiles = << >>
    /\ summary_cache = [u \in Users |-> NoSummary]
    /\ profile_read = NoProfileRead
    /\ streak_job = [pc |-> "idle", last |-> NoDate, batch |-> {}]

NextScores ==
    \/ \E r \in Runs : GuardRead(r)
    \/ \E r \in Runs : Claim(r)
    \/ \E r \in Runs : Prepare(r)
    \/ \E r \in Runs :
          run[r].pc = "infer" /\ \E resp \in ScorePool : InferSuccess(r, 0, resp)
    \/ \E r \in Runs : Interpret(r)
    \/ \E r \in Runs : TxnRead(r)
    \/ \E r \in Runs : TxnCommit(r)
    \/ \E r \in Runs : Reindex(r)
    \/ \E r \in Runs : Referral(r)
    \/ \E r \in Runs : TeamAggregate(r)
    \/ \E r \in Runs : TeamTxnRead(r)
    \/ \E r \in Runs : TeamTxn(r)
    \/ \E r \in Runs : TeamPayout(r)

SpecScores == InitScores /\ [][NextScores]_vars

\* the precondition of C36
SumFarFromFinal(res) ==
    /\ res # NoResult
    /\ ~res.error
    /\ Abs(res.baseScore + res.effortScore + res.creativityScore - res.finalScore) > 5

\* C36: an execution whose parsed result has no error field and component
\* scores whose sum differs from finalScore by more than 5 takes the
\* override at the interpretation and goes to the notification; none of
\* its steps changes a user document, a team challenge, the ledger or the
\* award queue.
InconsistentScoresOverridden ==
    [][\A r \in Runs :
          (SumFarFromFinal(run[r].result) /\ run'[r] # run[r])
          => /\ users' = users
             /\ teams' = teams
             /\ ledgerLog' = ledgerLog
             /\ awardQ' = awardQ
             /\ run[r].pc = "interpret"
             /\ run'[r].pc = "notify"
             /\ run'[r].overridden]_vars

WitnessInconsistentOverridden ==
    \E r \in Runs :
        /\ run[r].pc = "notify" /\ run[r].overridden
        /\ run[r].result.baseScore = 4 /\ run[r].result.effortScore = 4
        /\ run[r].result.creativityScore = 4 /\ run[r].result.penaltyPoints = 0
        /\ run[r].result.finalScore = 6
        /\ users["u1"] = [NewUser(NoUser) EXCEPT !.activeTeamChallenges = << "t1" >>]
        /\ teams["t1"] = TeamExample
        /\ ledgerLog = << >>

\* the precondition of C37: the result follows the rubric formula of the
\* prompt (api/prompts.py, CalculationLogic) and has a finalScore of 4 or more
FollowsRubric(res) ==
    /\ res # NoResult
    /\ ~res.error
    /\ LET computed == res.baseScore + res.effortScore + res.creativityScore
                          - res.penaltyPoints
       IN  res.finalScore = IF computed < 0 THEN 0 ELSE computed
    /\ res.finalScore >= 4

\* C37: an execution whose parsed result follows the rubric formula with
\* finalScore >= 4 does not take the low-confidence override.
RubricResultCredited ==
    \A r \in Runs : FollowsRubric(run[r].result) => ~run[r].overridden
(***************************************************************************)
(* The longest streak: the owner u1 of j1 is new or has a history (a last  *)
(* commit on some day up to today, current streak 0, 1 or 2, longest       *)
(* streak 2); the calendar advances, reset_inactive_streaks runs at most   *)
(* once a day, and the executions of j1 are followed up to the commit of   *)
(* the ledger transaction.                                                 *)
(***************************************************************************)
SpecMax == InitStreak /\ [][NextDaily]_vars

\* C38: no step lowers a user's maxStreak, and after every step, ledger
\* commits included, maxStreak >= currentStreak; every committed ledger
\* transaction leaves maxStreak at least the maxStreak it read and at least
\* the currentStreak it wrote.
MaxStreakMonotone ==
    [][/\ \A u \in Users : /\ users'[u].maxStreak >= users[u].maxStreak
                           /\ users'[u].maxStreak >= users'[u].currentStreak
       /\ \A i \in DOMAIN ledgerLog' :
             /\ ledgerLog'[i].after.maxStreak >= ledgerLog'[i].before.maxStreak
             /\ ledgerLog'[i].after.maxStreak >= ledgerLog'[i].after.currentStreak]_vars

\* a commit after a gap restarts the streak at 1 and keeps the longest one
WitnessMaxStreakKept ==
    \E i \in DOMAIN ledgerLog :
        /\ ledgerLog[i].before.currentStreak = 2
        /\ ledgerLog[i].before.maxStreak = 2
        /\ ledgerLog[i].after.currentStreak = 1
        /\ ledgerLog[i].after.maxStreak = 2
        /\ users["u1"].maxStreak = 2
(***************************************************************************)
(* What the ledger transaction writes: both uploads of u1 are being        *)
(* analysed, each by one execution; u1 was referred by u2 (when u1 has a   *)
(* document) and u1, u2, u3 are the accepted members of the team challenge *)
(* t1, which the first progress update completes.  The dispatched          *)
(* award_bonus_points tasks run in any order.                              *)
(***************************************************************************)
InitFrame ==
    /\ uploads = [j \in Jobs |-> [NewUpload EXCEPT !.status = "PENDING_ANALYSIS"]]
    /\ \E owner_exists \in BOOLEAN :
          users = [u \in Users |->
                      IF u = "u1" /\ ~owner_exists THEN MissingUser
                      ELSE [NewUser(IF u = "u1" THEN "u2" ELSE NoUser)
                               EXCEPT !.activeTeamChallenges =
                                   IF TeamExample.members[u] = "accepted"
                                   THEN << "t1" >> ELSE << >>]]
    /\ storage = [j \in Jobs |-> {"incoming"}]
    /\ run = [r \in Runs |-> IF r = 1
                             THEN [IdleRun EXCEPT !.pc = "guard", !.job = "j1"]
                             ELSE IF r = 2
                             THEN [IdleRun EXCEPT !.pc = "guard", !.job = "j2"]
                             ELSE IdleRun]
    /\ today = 0
    /\ enqueued = [j \in Jobs |-> FALSE]
    /\ uc = [j \in Jobs |-> [pc |-> "idle", calls |-> 1]]
    /\ retryQ = {}
    /\ awardQ = << >>
    /\ cursor = 0
    /\ sent = [j \in Jobs |-> "none"]
    /\ faults = MaxFaults
    /\ ledgerLog = << >>
    /\ teams = [t \in Teams |-> IF t = "t1" THEN TeamExample ELSE NoTeam]
    /\ gemini_file_resource = [r \in Runs |-> NoFile]
    /\ remoteFiles = << >>
    /\ summary_cache = [u \in Users |-> NoSummary]
    /\ profile_read = NoProfileRead
    /\ streak_job = [pc |-> "idle", last |-> NoDate, batch |-> {}]

NextFrame ==
    \/ \E r \in Runs : GuardRead(r)
    \/ \E r \in Runs : Claim(r)
    \/ \E r \in Runs : Prepare(r)
    \/ \E r \in Runs, resp \in TeamPool : InferSuccess(r, 0, resp)
    \/ \E r \in Runs : Interpret(r)
    \/ \E r \in Runs : TxnRead(r)
    \/ \E r \in Runs : TxnCommit(r)
    \/ \E r \in Runs : TxnAbort(r)
    \/ \E r \in Runs : Reindex(r)
    \/ \E r \in Runs : Referral(r)
    \/ \E r \in Runs : TeamAggregate(r)
    \/ \E r \in Runs : TeamTxnRead(r)
    \/ \E r \in Runs : TeamTxn(r)
    \/ \E r \in Runs : TeamTxnAbort(r)
    \/ \E r \in Runs : TeamPayout(r)
    \/ \E i \in DOMAIN awardQ : AwardBonus(i)

SpecFrame == InitFrame /\ [][NextFrame]_vars

\* the step takes one task of user u from awardQ and adds its amount to the
\* points of u
AwardStep(u) ==
    \E i \in DOMAIN awardQ :
        /\ awardQ[i].user = u
        /\ awardQ' = RemoveAt(awardQ, i)
        /\ users'[u].totalPoints = users[u].totalPoints + awardQ[i].amount

\* the step is the commit of the ledger transaction of execution r
LedgerCommitStep(r) == run[r].pc = "txn_commit" /\ run'[r].pc = "reindex"

\* C39: the commit of a job's ledger transaction changes no user document
\* but the owner's, no upload record but the job's, no team challenge and
\* dispatches nothing; in any step the points of a user change only by that
\* user's own ledger commit or by an award task taken from the queue, and an
\* award task is dispatched only by an execution whose ledger transaction
\* has committed.
LedgerWritesOwnerAndJob ==
    [][/\ \A r \in Runs :
             LedgerCommitStep(r)
             => /\ \A u \in Users \ {JobOwner[run[r].job]} : users'[u] = users[u]
                /\ \A j \in Jobs \ {run[r].job} : uploads'[j] = uploads[j]
                /\ uploads'[run[r].job].status = "COMPLETED"
                /\ teams' = teams
                /\ awardQ' = awardQ
       /\ \A u \in Users :
             users'[u].totalPoints # users[u].totalPoints
             => \/ \E r \in Runs : LedgerCommitStep(r) /\ JobOwner[run[r].job] = u
                \/ AwardStep(u)
       /\ Len(awardQ') > Len(awardQ)
             => \E r \in Runs :
                   /\ run[r].pc \in {"referral", "team_pay"}
                   /\ run'[r].pc # run[r].pc
                   /\ \E i \in DOMAIN ledgerLog :
                         ledgerLog[i].run = r /\ ledgerLog[i].job = run[r].job]_vars

\* j1's transaction has committed and every award it led to has been
\* applied: the referrer u2 holds the referral reward and a share of the
\* team bonus, u3 a share, while j2's record is as it was
WitnessAwardsAfterCommit ==
    /\ \E i \in DOMAIN ledgerLog : ledgerLog[i].job = "j1"
    /\ uploads["j1"].status = "COMPLETED"
    /\ uploads["j2"] = [NewUpload EXCEPT !.status = "PENDING_ANALYSIS"]
    /\ awardQ = << >>
    /\ users["u2"].totalPoints = ReferralBonus + (TeamExample.bonusPoints \div 3)
    /\ users["u3"].totalPoints = TeamExample.bonusPoints \div 3
    /\ users["u1"].totalPoints = RProgress.finalScore + (TeamExample.bonusPoints \div 3)
====
